---- MODULE Spec2Model ----
(***************************************************************************)
(* Planning Center MCP server: the rate-limited fetchers (working.py,      *)
(* main.py, client.py, simple.py), the event_times pager and the session   *)
(* resolver of the attendance pipeline (simple.py, working.py).            *)
(*                                                                         *)
(* Time is counted in whole seconds.  HTTP traffic is modelled by the      *)
(* answers the backend gives to the successive HTTP attempts of a call.    *)
(***************************************************************************)
EXTENDS Integers, Sequences, FiniteSets, TLC

(***************************************************************************)
(* Program constants.                                                      *)
(***************************************************************************)
\* RateLimiter.__init__(max_requests=100, time_window=60)
max_requests == 100
time_window == 60
\* client.py: RATE_LIMIT = 100, and the literal 60 of _check_rate_limit
RATE_LIMIT == 100
CLIENT_WINDOW == 60
\* make_sync_request(..., max_retries=3, ...); simple._request: retries = 3
max_retries == 3
retries == 3
\* simple._request: time.sleep(10) after a 429, time.sleep(2) after a failure
SLEEP_429 == 10
SLEEP_ERR == 2

\* main.py list_people_with_filters: limit: int = 50
default_limit == 50

(***************************************************************************)
(* Bounds of the model.                                                    *)
(***************************************************************************)
\* accepted calls per run of the rate-limiter specifications
MaxAccepted == 101
\* accepted calls per run of the retry specification
FetchCalls == 2
\* fetcher calls started per run of the concurrent specification
ConcCalls == 3
\* pages of the backend's event_times collection
MaxPages == 3
\* records in the data array, and in the included array, of one page
MaxRecs == 2
\* requests kept in the pager's request history
MaxLog == 5
\* periods the backend lists for one day
MaxPeriods == 3
\* the retry specification starts no call of simple._request after this time
FetchHorizon == 24
\* Headcount records in the included array of a session
MaxHC == 2
\* accepted fetcher calls per run of the start-up specification
StartCalls == 2
\* the start-up specification starts no call of simple._request after this time
StartHorizon == 12
\* the status-reporting contact tool starts while fewer fetcher calls than
\* this were accepted
SafeCalls == 101
\* a listing tool starts while fewer fetcher calls than this were accepted
ListCalls == 1
\* a report of working.py starts while fewer fetcher calls than this were
\* accepted
AggCalls == 1
\* a tool of the enrichment specification starts while fewer fetcher calls
\* than this were accepted
FanCalls == 1
\* people the backend lists for a search
MaxPeople == 2
\* accepted fetcher calls per run of the person-details specification
ToolCalls == 101
\* the person-details specification starts no call that sleeps after this time
ToolHorizon == 1

\* The instants at which the clock is observed in the rate-limiter
\* specifications: a start, the last second inside the window that opens at
\* 0, and the first second outside it.
Instants == {0, 59, 60}

\* the tool invocations that run in parallel
Threads == {1, 2}

NoNum == 0 - 1

VARIABLES
  server,     \* which program runs: "working", "main", "client" or "simple"
  now,        \* the clock: time.time() / datetime.now(), in seconds
  requests,   \* rate_limiter.requests / rate_limit_requests
  accepted,   \* history: the timestamp recorded by every accepted call
  result,     \* what the last fetcher call returned or raised
  answers,    \* the HTTP answers the last fetcher call received, in order
  pc,         \* per thread or coroutine: its position in the fetcher
  tmp,        \* per thread: the list built by can_make_request, not yet stored
  tres,       \* per thread or coroutine: what its last call returned or raised
  chain,      \* the backend's event_times pages, by page number
  pg_pc,      \* fetch_event_times_with_headcounts: its position
  url,        \* fetch_event_times_with_headcounts: url
  params,     \* fetch_event_times_with_headcounts: params
  page,       \* fetch_event_times_with_headcounts: page
  all_times,  \* fetch_event_times_with_headcounts: all_times
  included,   \* fetch_event_times_with_headcounts: included
  reqlog,     \* history: the requests the pager handed to the HTTP library
  rs_date,    \* session resolver: the date argument of the last call
  rs_reqs,    \* session resolver: the fetcher calls of the last call
  rs_periods, \* session resolver: the data array the backend answered with
  rs_out,     \* session resolver: what the last call produced
  backend,    \* the session data the backend holds for the requested date
  ag_date,    \* attendance report: the date argument of the last call
  ag_fail,    \* attendance report: the request of the last call that failed (0: none)
  ag_reqs,    \* attendance report: the requests of the last call, in order
  ag_out,     \* attendance report: what the last call returned or raised
  tl_tool,    \* people tools: the tool called last
  tl_in,      \* people tools: its arguments and the people the backend found
  tl_calls,   \* people tools: the fetcher calls of the last tool call, in order
  tl_out,     \* people tools: what the last tool call returned or raised
  env,        \* whether the environment holds the client id and the secret
  auth        \* the credentials the loaded module holds, or how its load ended

rlVars == <<server, now, requests, accepted, result, answers>>
thVars == <<pc, tmp, tres>>
pgVars == <<chain, pg_pc, url, params, page, all_times, included, reqlog>>
rsVars == <<rs_date, rs_reqs, rs_periods, rs_out>>
agVars == <<backend, ag_date, ag_fail, ag_reqs, ag_out>>
tlVars == <<tl_tool, tl_in, tl_calls, tl_out>>
stVars == <<env, auth>>
vars == <<server, now, requests, accepted, result, answers, pc, tmp, tres,
          chain, pg_pc, url, params, page, all_times, included, reqlog,
          rs_date, rs_reqs, rs_periods, rs_out,
          backend, ag_date, ag_fail, ag_reqs, ag_out,
          tl_tool, tl_in, tl_calls, tl_out, env, auth>>

(***************************************************************************)
(* Helpers.                                                                *)
(***************************************************************************)
RECURSIVE SeqSum(_)
SeqSum(s) == IF s = <<>> THEN 0 ELSE Head(s) + SeqSum(Tail(s))

\* the number of history entries inside the half-open window (T - 60, T]
InWindow(hist, T) ==
  Cardinality({i \in DOMAIN hist : hist[i] <= T /\ T - hist[i] < 60})

(***************************************************************************)
(* HTTP answers and fetcher results.                                       *)
(***************************************************************************)
Resp(k, c, b) == [kind |-> k, code |-> c, body |-> b]

\* what the backend can answer to one HTTP attempt
Responses ==
  { Resp("status", 200, "docA"), Resp("status", 200, "docB"),
    Resp("status", 404, "not found"), Resp("status", 400, "bad request"),
    Resp("status", 429, "slow down"), Resp("status", 500, "oops"),
    Resp("status", 503, "unavailable"),
    Resp("timeout", 0, ""), Resp("error", 0, "") }

\* kind: "ok" or the error raised; attempts: HTTP attempts made; sleeps: the
\* delays slept, in order; msg_n: the attempt count the message names (NoNum
\* when it names none); status, body: what the result carries
Result(k, n, sl, m, c, b) ==
  [kind |-> k, attempts |-> n, sleeps |-> sl, msg_n |-> m, status |-> c, body |-> b]

NoResult == Result("none", 0, <<>>, NoNum, 0, "")
\* raise Exception("Rate limit exceeded. Planning Center allows 100 requests per minute.")
RateLimitExceeded == Result("RateLimitExceeded", 0, <<>>, NoNum, 0, "")

(***************************************************************************)
(* RateLimiter (working.py, main.py: the same class).                      *)
(***************************************************************************)
\* a pruning that keeps the timestamp that is exactly time_window old
Prune_inclusive(reqs, t) == SelectSeq(reqs, LAMBDA req_time : t - req_time <= time_window)

\* self.requests = [req_time for req_time in self.requests if now - req_time < self.time_window]
Prune(reqs, t) == SelectSeq(reqs, LAMBDA req_time : t - req_time < time_window)

\* a check that lets the window grow to max_requests + 1
can_make_request_offby1(reqs, t) == Len(Prune(reqs, t)) <= max_requests

\* return len(self.requests) < self.max_requests, on the pruned list
can_make_request(reqs, t) == Len(Prune(reqs, t)) < max_requests

\* a recording that stores the timestamp twice
record_request_twice(reqs, t) == Append(Append(reqs, t), t)

\* self.requests.append(time.time())
record_request(reqs, t) == Append(reqs, t)

\* the clock read by record_request is not earlier than the one read by
\* can_make_request
RecordTimes == {now} \cup {t \in Instants : t > now}

(***************************************************************************)
(* working.py make_sync_request: the retry loop.                           *)
(***************************************************************************)
\* time.sleep(2 * (attempt + 1)) after a 429, time.sleep(1 * (attempt + 1))
\* after a timeout, a 5xx or another failure
sync_delay(r, attempt) ==
  IF r.kind = "status" /\ r.code = 429 THEN 2 * (attempt + 1) ELSE 1 * (attempt + 1)

RECURSIVE sync_attempts(_, _, _)
sync_attempts(script, attempt, slept) ==
  IF attempt >= max_retries
  THEN \* raise Exception(f"Request failed after {max_retries} attempts")
       Result("RequestFailed", attempt, slept, max_retries, 0, "")
  ELSE
    LET r == script[attempt + 1]
        n == attempt + 1
        last == attempt = max_retries - 1
    IN  CASE r.kind = "status" /\ r.code < 400 ->
               Result("ok", n, slept, NoNum, r.code, r.body)
          [] r.kind = "timeout" ->
               IF last
               THEN Result("TimedOut", n, slept, max_retries, 0, "")
               ELSE sync_attempts(script, attempt + 1, Append(slept, sync_delay(r, attempt)))
          [] r.kind = "status" /\ r.code = 429 ->
               IF last
               THEN Result("RateLimited", n, slept, max_retries, 0, "")
               ELSE sync_attempts(script, attempt + 1, Append(slept, sync_delay(r, attempt)))
          [] r.kind = "status" /\ r.code >= 500 ->
               IF last
               THEN Result("ServerError", n, slept, max_retries, r.code, "")
               ELSE sync_attempts(script, attempt + 1, Append(slept, sync_delay(r, attempt)))
          [] r.kind = "status" /\ r.code >= 400 /\ r.code < 500 /\ r.code # 429 ->
               Result("ClientError", n, slept, NoNum, r.code, r.body)
          [] OTHER ->
               IF last
               THEN Result("RequestFailed", n, slept, max_retries, 0, "")
               ELSE sync_attempts(script, attempt + 1, Append(slept, sync_delay(r, attempt)))

\* the backend's answers to the successive HTTP attempts of one call
Scripts == [1..max_retries -> Responses]
\* a backend that answers every attempt with the same document
PlainResponses == {Resp("status", 200, "docA")}
PlainScripts == { [i \in 1..max_retries |-> r] : r \in PlainResponses }

make_sync_request(scripts, cap) ==
  /\ server = "working"
  /\ IF ~can_make_request(requests, now)
     THEN /\ requests' = Prune(requests, now)
          /\ result' = RateLimitExceeded
          /\ answers' = <<>>
          /\ UNCHANGED <<server, now, accepted, thVars, pgVars, rsVars, agVars, tlVars, stVars>>
     ELSE /\ Len(accepted) < cap
          /\ \E t \in RecordTimes : \E script \in scripts :
               LET res == sync_attempts(script, 0, <<>>) IN
               /\ requests' = record_request(Prune(requests, now), t)
               /\ accepted' = Append(accepted, t)
               /\ result' = res
               /\ answers' = SubSeq(script, 1, res.attempts)
               /\ now' = t + SeqSum(res.sleeps)
          /\ UNCHANGED <<server, thVars, pgVars, rsVars, agVars, tlVars, stVars>>

(***************************************************************************)
(* main.py make_api_request: the same limiter, one HTTP attempt.           *)
(***************************************************************************)
\* response.raise_for_status(); return response.json()
api_attempt(r) ==
  CASE r.kind = "status" /\ r.code < 400 -> Result("ok", 1, <<>>, NoNum, r.code, r.body)
    [] r.kind = "status" -> Result("HTTPStatusError", 1, <<>>, NoNum, r.code, r.body)
    [] r.kind = "timeout" -> Result("TimeoutException", 1, <<>>, NoNum, 0, "")
    [] OTHER -> Result("RequestError", 1, <<>>, NoNum, 0, "")

make_api_request(resps, cap) ==
  /\ server = "main"
  /\ IF ~can_make_request(requests, now)
     THEN /\ requests' = Prune(requests, now)
          /\ result' = RateLimitExceeded
          /\ answers' = <<>>
          /\ UNCHANGED <<server, now, accepted, thVars, pgVars, rsVars, agVars, tlVars, stVars>>
     ELSE /\ Len(accepted) < cap
          /\ \E t \in RecordTimes : \E r \in resps :
               /\ requests' = record_request(Prune(requests, now), t)
               /\ accepted' = Append(accepted, t)
               /\ result' = api_attempt(r)
               /\ answers' = <<r>>
               /\ now' = t
          /\ UNCHANGED <<server, thVars, pgVars, rsVars, agVars, tlVars, stVars>>

(***************************************************************************)
(* client.py PlanningCenterClient.get / _check_rate_limit.                 *)
(***************************************************************************)
\* a pruning that also stamps the call
ClientPrune_stamping(reqs, t) ==
  Append(SelectSeq(reqs, LAMBDA req_time : t - req_time < CLIENT_WINDOW), t)

\* [req_time for req_time in rate_limit_requests if (now - req_time).total_seconds() < 60]
ClientPrune(reqs, t) == SelectSeq(reqs, LAMBDA req_time : t - req_time < CLIENT_WINDOW)

client_get(resps, cap) ==
  /\ server = "client"
  /\ LET kept == ClientPrune(requests, now) IN
     IF Len(kept) >= RATE_LIMIT
     THEN /\ requests' = kept
          /\ result' = RateLimitExceeded
          /\ answers' = <<>>
          /\ UNCHANGED <<server, now, accepted, thVars, pgVars, rsVars, agVars, tlVars, stVars>>
     ELSE /\ Len(accepted) < cap
          /\ \E r \in resps :
               /\ requests' = Append(kept, now)
               /\ accepted' = Append(accepted, now)
               /\ result' = api_attempt(r)
               /\ answers' = <<r>>
          /\ UNCHANGED <<server, now, thVars, pgVars, rsVars, agVars, tlVars, stVars>>


(***************************************************************************)
(* simple.py _request: no rate limiter, three attempts.                    *)
(***************************************************************************)
\* time.sleep(10) after a 429, time.sleep(2) after a RequestException
request_delay(r) ==
  IF r.kind = "status" /\ r.code = 429 THEN SLEEP_429 ELSE SLEEP_ERR

RECURSIVE request_attempts(_, _, _)
request_attempts(script, attempt, slept) ==
  IF attempt >= retries
  THEN \* raise RuntimeError("Unreachable")
       Result("RuntimeError", attempt, slept, NoNum, 0, "Unreachable")
  ELSE
    LET r == script[attempt + 1]
        n == attempt + 1
        last == attempt = retries - 1
    IN  CASE r.kind = "status" /\ r.code = 429 ->
               \* time.sleep(10); continue
               request_attempts(script, attempt + 1, Append(slept, request_delay(r)))
          [] r.kind = "status" /\ r.code < 400 ->
               Result("ok", n, slept, NoNum, r.code, r.body)
          [] r.kind = "status" ->
               \* raise_for_status(): HTTPError, a RequestException
               IF last
               THEN Result("HTTPError", n, slept, NoNum, r.code, r.body)
               ELSE request_attempts(script, attempt + 1, Append(slept, request_delay(r)))
          [] OTHER ->
               \* Timeout, ConnectionError: RequestException, re-raised as it is
               IF last
               THEN Result("RequestException", n, slept, NoNum, 0, "")
               ELSE request_attempts(script, attempt + 1, Append(slept, request_delay(r)))

SimpleScripts == [1..retries -> Responses]

simple_request(scripts) ==
  /\ server = "simple"
  /\ \E script \in scripts :
       LET res == request_attempts(script, 0, <<>>) IN
       /\ result' = res
       /\ answers' = SubSeq(script, 1, res.attempts)
       /\ now' = now + SeqSum(res.sleeps)
  /\ UNCHANGED <<server, requests, accepted, thVars, pgVars, rsVars, agVars, tlVars, stVars>>


(***************************************************************************)
(* simple.py fetch_event_times_with_headcounts: the pager.                 *)
(***************************************************************************)
\* An endpoint is relative ("/events/...") or absolute ("http..."); page is the
\* page of the collection it addresses.
Relative(k) == [http |-> FALSE, page |-> k]
Absolute(k) == [http |-> TRUE, page |-> k]
\* links.next of a page: the key is missing, or it is "" / null, or a URL
NoLink == [http |-> FALSE, page |-> -1]
EmptyLink == [http |-> FALSE, page |-> 0]

\* url = endpoint if endpoint.startswith("http") else BASE_URL + endpoint.lstrip("/")
request_url(endpoint) == IF endpoint.http THEN endpoint ELSE Absolute(endpoint.page)

\* params = {"per_page": 100, "include": "headcounts,headcounts.attendance_type"}
CallerParams == {<<"per_page", "100">>, <<"include", "headcounts,headcounts.attendance_type">>}

\* url = f"/events/{event_id}/event_periods/{period_id}/event_times"
EventTimesEndpoint == Relative(1)

\* `while url:` - a missing, empty or null link ends the loop
Truthy(u) == u # NoLink /\ u # EmptyLink

\* the k-th page with d event times and, when inc >= 0, inc included records
Page(k, d, inc, nxt) ==
  [ data |-> [i \in 1..d |-> <<"time", k, i>>],
    has_included |-> inc >= 0,
    included |-> [i \in 1..(IF inc >= 0 THEN inc ELSE 0) |-> <<"inc", k, i>>],
    next |-> nxt ]
NoPage == Page(0, 0, -1, NoLink)

\* an accumulation that puts the new page in front
extend_times_front(acc, pg) == pg.data \o acc

\* all_times.extend(page.get("data", []))
extend_times(acc, pg) == acc \o pg.data

\* if "included" in page: included.extend(page["included"])
extend_included(acc, pg) == IF pg.has_included THEN acc \o pg.included ELSE acc

\* url = page.get("links", {}).get("next", "")
next_url(pg) == IF pg.next = NoLink THEN EmptyLink ELSE pg.next

\* a loop that keeps the caller's params for the next request
next_params_kept == params

\* params = {}  # next is fully-qualified
next_params == {}

PagerIdle ==
  /\ pg_pc = "idle"
  /\ url = EmptyLink
  /\ params = {}
  /\ page = NoPage
  /\ all_times = <<>>
  /\ included = <<>>
  /\ reqlog = <<>>

\* the call, up to the loop
PagerStart ==
  /\ pg_pc = "idle"
  /\ params' = CallerParams
  /\ all_times' = <<>>
  /\ included' = <<>>
  /\ url' = EventTimesEndpoint
  /\ pg_pc' = "loop"
  /\ UNCHANGED <<rlVars, thVars, rsVars, agVars, tlVars, stVars, chain, page, reqlog>>

\* page = _request(url, params): the page of the backend, or _request raises
PagerRequest ==
  /\ pg_pc = "loop"
  /\ reqlog' = IF Len(reqlog) < MaxLog
               THEN Append(reqlog, [url |-> request_url(url), params |-> params])
               ELSE reqlog
  /\ \/ /\ request_url(url).page \in DOMAIN chain
        /\ page' = chain[request_url(url).page]
        /\ pg_pc' = "got"
     \/ /\ pg_pc' = "error"
        /\ UNCHANGED page
  /\ UNCHANGED <<rlVars, thVars, rsVars, agVars, tlVars, stVars, chain, url, params, all_times, included>>

\* the rest of the loop body, and the loop test
PagerProcess ==
  /\ pg_pc = "got"
  /\ all_times' = extend_times(all_times, page)
  /\ included' = extend_included(included, page)
  /\ url' = next_url(page)
  /\ params' = next_params
  /\ pg_pc' = IF Truthy(next_url(page)) THEN "loop" ELSE "done"
  /\ UNCHANGED <<rlVars, thVars, rsVars, agVars, tlVars, stVars, chain, page, reqlog>>


(***************************************************************************)
(* Session resolver: simple.py fetch_event_period_for_date and the first   *)
(* step of working.py get_total_attendance_details_for_date.               *)
(***************************************************************************)
\* A date argument is a text "y-m-d"; padded tells whether month and day are
\* written with two digits.  NotADate is a text that is no such triple.
DateText(y, m, d, p) == [y |-> y, m |-> m, d |-> d, padded |-> p]
NotADate == DateText(0, 0, 0, FALSE)

IsLeap(y) == (y % 4 = 0 /\ y % 100 # 0) \/ y % 400 = 0
DaysInMonth(y, m) ==
  CASE m \in {4, 6, 9, 11} -> 30
    [] m = 2 -> IF IsLeap(y) THEN 29 ELSE 28
    [] OTHER -> 31

\* datetime.strptime(date, "%Y-%m-%d") succeeds: a calendar date, with or
\* without leading zeros
strptime_ok(text) ==
  /\ text.y >= 1
  /\ text.m \in 1..12
  /\ text.d \in 1..DaysInMonth(text.y, text.m)
\* datetime.strptime(date, "%Y-%m-%d").date()
strptime(text) == <<text.y, text.m, text.d>>
\* date.isoformat(): always two digits
isoformat(dt) == DateText(dt[1], dt[2], dt[3], TRUE)

\* date.toordinal()
RECURSIVE DaysBeforeMonth(_, _)
DaysBeforeMonth(y, m) == IF m = 1 THEN 0 ELSE DaysBeforeMonth(y, m - 1) + DaysInMonth(y, m - 1)
toordinal(dt) ==
  LET y == dt[1] - 1 IN
  y * 365 + y \div 4 - y \div 100 + y \div 400 + DaysBeforeMonth(dt[1], dt[2]) + dt[3]
\* the years of the dates of the model
Years == 2024..2026
Calendar ==
  {<<y, m, d>> : y \in Years, m \in 1..12, d \in 1..31} \cap
  {dt \in Years \X (1..12) \X (1..31) : dt[3] <= DaysInMonth(dt[1], dt[2])}
\* date.fromordinal(n)
fromordinal(n) == CHOOSE dt \in Calendar : toordinal(dt) = n
\* dt + timedelta(days=1)
plus_one_day(dt) == fromordinal(toordinal(dt) + 1)

\* params of the event_periods query
period_params(dt) ==
  [ gte |-> isoformat(dt), lt |-> isoformat(plus_one_day(dt)),
    order |-> "starts_at", per_page |-> 100 ]

\* EVENT_ID = "701347" / EVENT_ID_FOR_TOTALS = "701347"
EVENT_ID == "701347"
periods_endpoint(event_id) == <<"events", event_id, "event_periods">>

\* a selection that takes the last period listed
select_last(periods) == periods[Len(periods)]

\* periods[0]
select_period(periods) == periods[1]

NoPeriod == [id |-> "", starts_at |-> -1]
Out(k, p) == [kind |-> k, id |-> p.id]

ResolverIdle ==
  /\ rs_date = NotADate
  /\ rs_reqs = <<>>
  /\ rs_periods = <<>>
  /\ rs_out = Out("none", NoPeriod)

\* simple.py fetch_event_period_for_date(event_id, date_iso); lists: what the
\* backend may answer in "data"
fetch_event_period_for_date(dates, lists) ==
  /\ server = "simple"
  /\ \E date_iso \in dates :
       /\ rs_date' = date_iso
       /\ IF ~strptime_ok(date_iso)
          THEN \* strptime raises ValueError
               /\ rs_reqs' = <<>>
               /\ rs_periods' = <<>>
               /\ rs_out' = Out("ValueError", NoPeriod)
          ELSE /\ rs_reqs' = << [ endpoint |-> periods_endpoint(EVENT_ID),
                                  params |-> period_params(strptime(date_iso)) ] >>
               /\ \/ \* _request raises
                     /\ rs_periods' = <<>>
                     /\ rs_out' = Out("raised", NoPeriod)
                  \/ \E periods \in lists :
                       /\ rs_periods' = periods
                       /\ rs_out' = IF periods = <<>>
                                    THEN Out("None", NoPeriod)
                                    ELSE Out("period", select_period(periods))
  /\ UNCHANGED <<rlVars, thVars, pgVars, agVars, tlVars, stVars>>

\* working.py get_total_attendance_details_for_date(date), to period_id
resolve_period_id(dates, lists) ==
  /\ server = "working"
  /\ \E date \in dates :
       /\ rs_date' = date
       /\ IF ~strptime_ok(date)
          THEN \* return {"error": "Invalid date format. Use YYYY-MM-DD."}
               /\ rs_reqs' = <<>>
               /\ rs_periods' = <<>>
               /\ rs_out' = Out("Invalid date format", NoPeriod)
          ELSE /\ rs_reqs' = << [ endpoint |-> periods_endpoint(EVENT_ID),
                                  params |-> period_params(strptime(date)) ] >>
               /\ \/ \* make_sync_request raises:
                     \* return {"error": f"Failed to get attendance for {date}: ..."}
                     /\ rs_periods' = <<>>
                     /\ rs_out' = Out("Failed to get attendance", NoPeriod)
                  \/ \E periods \in lists :
                       /\ rs_periods' = periods
                       /\ rs_out' = IF periods = <<>>
                                    THEN Out("No event_period", NoPeriod)
                                    ELSE Out("period", select_period(periods))
  /\ UNCHANGED <<rlVars, thVars, pgVars, agVars, tlVars, stVars>>

(***************************************************************************)
(* The fetcher of the running program, called from a handler.              *)
(***************************************************************************)
\* the fetcher's side of the state: the limiter's list, the clock, the
\* history of accepted calls, the last result and the answers it received
FetcherState == [requests |-> requests, now |-> now, accepted |-> accepted,
                 result |-> result, answers |-> answers]

\* one call of the fetcher of the running program (make_sync_request,
\* make_api_request, pc_client.get) from the state st; script: the backend's
\* answers to its HTTP attempts
fetch(st, script) ==
  CASE server = "working" ->
         IF ~can_make_request(st.requests, st.now)
         THEN [st EXCEPT !.requests = Prune(st.requests, st.now),
                         !.result = RateLimitExceeded, !.answers = <<>>]
         ELSE LET res == sync_attempts(script, 0, <<>>) IN
              [ requests |-> record_request(Prune(st.requests, st.now), st.now),
                now |-> st.now + SeqSum(res.sleeps),
                accepted |-> Append(st.accepted, st.now),
                result |-> res, answers |-> SubSeq(script, 1, res.attempts) ]
    [] server = "main" ->
         IF ~can_make_request(st.requests, st.now)
         THEN [st EXCEPT !.requests = Prune(st.requests, st.now),
                         !.result = RateLimitExceeded, !.answers = <<>>]
         ELSE [ requests |-> record_request(Prune(st.requests, st.now), st.now),
                now |-> st.now,
                accepted |-> Append(st.accepted, st.now),
                result |-> api_attempt(script[1]), answers |-> <<script[1]>> ]
    [] OTHER ->
         LET kept == ClientPrune(st.requests, st.now) IN
         IF Len(kept) >= RATE_LIMIT
         THEN [st EXCEPT !.requests = kept, !.result = RateLimitExceeded, !.answers = <<>>]
         ELSE [ requests |-> Append(kept, st.now),
                now |-> st.now,
                accepted |-> Append(st.accepted, st.now),
                result |-> api_attempt(script[1]), answers |-> <<script[1]>> ]

\* the fetcher calls of a tool call, one per script, in order: the state
\* after them and their results
RECURSIVE fetch_each(_, _, _)
fetch_each(st, scripts, results) ==
  IF scripts = <<>> THEN [st |-> st, results |-> results]
  ELSE IF Len(scripts) = 1
  THEN LET nxt == fetch(st, Head(scripts)) IN
       [st |-> nxt, results |-> Append(results, nxt.result)]
  ELSE \* the first half of the calls, then the second half from where the
       \* first half left the fetcher (the test has the first half evaluated
       \* before the second one starts)
       LET half == Len(scripts) \div 2
           left == fetch_each(st, SubSeq(scripts, 1, half), results) IN
       IF Len(left.results) = Len(results) + half
       THEN fetch_each(left.st, SubSeq(scripts, half + 1, Len(scripts)), left.results)
       ELSE left

(***************************************************************************)
(* Attendance reports: simple.py build_output, working.py                  *)
(* get_total_attendance_details_for_date and total.py main.                *)
(***************************************************************************)
\* the total attribute of a Headcount is a count, or is missing, or is null
MissingTotal == 0 - 1
NullTotal == 0 - 2
\* Python's None where an id or a name is expected
NoId == "None"

\* the records of an "included" array and of a "data" array of event times.
\* rel tells how the relationship data of an item is laid out: "full" when
\* the relationships object holds an entry with data and id for each id the
\* item has and no entry for an id that is None; otherwise how the ids that
\* are None are missing: "no_relationships" and "null_relationships" (the
\* relationships member is absent, is null), "null_entry" (the entry is
\* null), "no_data" and "null_data" (its data member is absent, is null)
AttendanceType(id, name) ==
  [type |-> "AttendanceType", id |-> id, name |-> name,
   total |-> MissingTotal, et |-> NoId, at |-> NoId, rel |-> "full"]
Headcount(total, et, at) ==
  [type |-> "Headcount", id |-> "", name |-> "", total |-> total, et |-> et, at |-> at,
   rel |-> "full"]
Shaped(item, rel) == [item EXCEPT !.rel = rel]
EventTime(id, starts_at) == [id |-> id, starts_at |-> starts_at]

\* a roster in another order
SERVICE_NAMES_sorted == <<"EH 8:15am", "EH 10:15am", "EH 12:15pm", "EW 9:00am", "EW 11:00am">>

\* SERVICE_NAMES (working.py) / SERVICES (total.py)
SERVICE_NAMES == <<"EH 10:15am", "EH 12:15pm", "EH 8:15am", "EW 11:00am", "EW 9:00am">>

\* what the backend holds for a day: its periods, the first page of the
\* event_times of the session (data and included) and the pages that follow
NoBackend == [periods |-> <<>>, event_times |-> <<>>, included |-> <<>>, later |-> <<>>]

\* event_times, included = fetch_event_times_with_headcounts(event_id, period_id)
\* run to its end on a finite chain of pages: <<all_times, included, requests>>
RECURSIVE pager_loop(_, _, _, _, _)
pager_loop(ch, u, times, inc, n) ==
  IF ~Truthy(u) THEN <<times, inc, n>>
  ELSE LET pg == ch[request_url(u).page] IN
       pager_loop(ch, next_url(pg), extend_times(times, pg), extend_included(inc, pg), n + 1)
\* the first page the backend answers with for the session
session_page(bk) ==
  [data |-> bk.event_times, has_included |-> TRUE, included |-> bk.included,
   next |-> IF bk.later = <<>> THEN NoLink ELSE Absolute(2)]
\* the pages of the session, by page number
session_chain(bk) ==
  [ k \in 1..(1 + Len(bk.later)) |->
      IF k = 1 THEN session_page(bk)
      ELSE [data |-> bk.later[k - 1].data, has_included |-> TRUE,
            included |-> bk.later[k - 1].included,
            next |-> IF k = 1 + Len(bk.later) THEN NoLink ELSE Absolute(k + 1)] ]

\* the items of an included array that have the given type, in order
of_type(inc, type) ==
  LET Test(item) == item.type = type IN SelectSeq(inc, Test)

\* attendance_types.get(at_id): the name the index holds for an id, NoId when
\* the index has no such key (a later item with the same id replaces an
\* earlier one)
index_name(inc, at_id) ==
  LET hits == {i \in DOMAIN inc : inc[i].type = "AttendanceType" /\ inc[i].id = at_id} IN
  IF hits = {} THEN NoId ELSE inc[CHOOSE i \in hits : \A j \in hits : j <= i].name

\* simple.py: attendance_types.get(at_id, {}).get("name", "") if at_id else ""
simple_at_name(inc, at_id) ==
  IF at_id = NoId \/ index_name(inc, at_id) = NoId THEN "" ELSE index_name(inc, at_id)

\* simple.py: attrs.get("total", 0)
attrs_total(item) == IF item.total = MissingTotal THEN 0 ELSE item.total

\* simple.py: hc_obj
hc_obj(inc, item) ==
  [ total |-> attrs_total(item),
    attendance_type_id |-> item.at,
    attendance_type_name |-> simple_at_name(inc, item.at),
    event_time_id |-> item.et ]

\* simple.py: headcounts_all
headcounts_all(inc) ==
  LET hcs == of_type(inc, "Headcount") IN [i \in DOMAIN hcs |-> hc_obj(inc, hcs[i])]

\* a grouping that hands every headcount to every event time
headcounts_of_any_time(hcs, et_id) == hcs

\* simple.py: headcounts_by_event_time.get(et_id, [])
headcounts_by_event_time(hcs, et_id) ==
  LET Test(hc) == hc.event_time_id # NoId /\ hc.event_time_id = et_id IN SelectSeq(hcs, Test)

\* simple.py: event_times_full
event_times_full(event_times, hcs) ==
  [ i \in DOMAIN event_times |->
      [ id |-> event_times[i].id, starts_at |-> event_times[i].starts_at,
        headcounts |-> headcounts_by_event_time(hcs, event_times[i].id) ] ]

\* Python's sum() over totals raises TypeError when one of them is None
sum_raises(hcs) == \E i \in DOMAIN hcs : hcs[i].total = NullTotal
sum_totals(hcs) == SeqSum([i \in DOMAIN hcs |-> hcs[i].total])

\* simple.py: totals_by_service_time
totals_by_service_time(full) ==
  [ i \in DOMAIN full |->
      [ event_time_id |-> full[i].id, starts_at |-> full[i].starts_at,
        total |-> sum_totals(full[i].headcounts) ] ]

\* a key that puts every headcount in the unknown group
attendance_key_single(hc) == "unknown"

\* simple.py: key = hc.get("attendance_type_id") or "unknown"
attendance_key(hc) == IF hc.attendance_type_id = NoId THEN "unknown" ELSE hc.attendance_type_id

\* simple.py: the keys of by_attendance, in the order they were first set
RECURSIVE by_attendance_keys(_, _)
by_attendance_keys(hcs, keys) ==
  IF hcs = <<>> THEN keys
  ELSE LET k == attendance_key(Head(hcs)) IN
       by_attendance_keys(Tail(hcs),
         IF \E i \in DOMAIN keys : keys[i] = k THEN keys ELSE Append(keys, k))

\* simple.py, working.py: (total or 0)
total_or_zero(total) == IF total = NullTotal THEN 0 ELSE total

\* simple.py: by_attendance[key]
by_attendance(hcs, key) ==
  LET Test(hc) == attendance_key(hc) = key
      group == SelectSeq(hcs, Test) IN
  SeqSum([i \in DOMAIN group |-> total_or_zero(group[i].total)])

\* simple.py: totals_by_attendance_type
totals_by_attendance_type(inc, hcs) ==
  LET keys == by_attendance_keys(hcs, <<>>) IN
  [ i \in DOMAIN keys |->
      [ attendance_type_id |-> IF keys[i] # "unknown" THEN keys[i] ELSE NoId,
        name |-> IF keys[i] # "unknown" THEN simple_at_name(inc, keys[i]) ELSE "",
        total |-> by_attendance(hcs, keys[i]) ] ]

\* simple.py: grand_total = sum(item["total"] for item in headcounts_all)
simple_grand_total(hcs) == sum_totals(hcs)

\* working.py: attendance_types.get(str(atid)) if atid else None
\* total.py:   attendance_types.get(str(atid), None)
named_at_name(inc, item) == IF item.at = NoId THEN NoId ELSE index_name(inc, item.at)

\* working.py: "attendance_type" in relationships and
\*             relationships["attendance_type"].get("data")
\* total.py:   "attendance_type" in relationships and
\*             relationships["attendance_type"]["data"]
\* the exception the test raises for an item read by the program prog, "" when
\* it raises none
relationships_raise(prog, item) ==
  CASE item.rel = "null_relationships" -> "TypeError"
    [] item.at = NoId /\ item.rel = "null_entry" ->
         IF prog = "working" THEN "AttributeError" ELSE "TypeError"
    [] item.at = NoId /\ item.rel = "no_data" /\ prog = "total" -> "KeyError"
    [] OTHER -> ""

\* working.py: hc.get("attributes", {}).get("total", 0) or 0
working_total(item) == total_or_zero(attrs_total(item))
\* total.py: hc.get("attributes", {}).get("total", 0)
main_total(item) == attrs_total(item)
\* the total as the program prog reads it
named_total(prog, item) == IF prog = "working" THEN working_total(item) ELSE main_total(item)

\* a label test that lets every recognized label match
matches_any_label(att_name, service_name) ==
  \E i \in DOMAIN SERVICE_NAMES : SERVICE_NAMES[i] = att_name

\* att_name == service_name
matches(att_name, service_name) == att_name = service_name

\* a selection that adds the totals of the rows of a label
RECURSIVE max_total_summed(_, _, _, _, _)
max_total_summed(inc, hcs, service_name, prog, acc) ==
  IF hcs = <<>> THEN acc
  ELSE max_total_summed(inc, Tail(hcs), service_name, prog,
         IF matches(named_at_name(inc, Head(hcs)), service_name)
         THEN acc + named_total(prog, Head(hcs)) ELSE acc)

\* the inner loop: max_total after the headcounts hcs, from max_total = acc
RECURSIVE max_total(_, _, _, _, _)
max_total(inc, hcs, service_name, prog, acc) ==
  IF hcs = <<>> THEN acc
  ELSE max_total(inc, Tail(hcs), service_name, prog,
         IF matches(named_at_name(inc, Head(hcs)), service_name) /\ named_total(prog, Head(hcs)) > acc
         THEN named_total(prog, Head(hcs)) ELSE acc)

\* total.py: `total > max_total` raises TypeError when total is None; the
\* test is reached for the rows whose name is the label of the turn
compare_raises(inc, hcs) ==
  \E i \in DOMAIN hcs, j \in DOMAIN SERVICE_NAMES :
    /\ matches(named_at_name(inc, hcs[i]), SERVICE_NAMES[j])
    /\ main_total(hcs[i]) = NullTotal

\* total.py: the exception the first turn of the outer loop ends with, "" when
\* it ends with none
first_raise(inc, hcs) ==
  LET raise_at(item) ==
        IF relationships_raise("total", item) # "" THEN relationships_raise("total", item)
        ELSE IF matches(named_at_name(inc, item), SERVICE_NAMES[1]) /\ main_total(item) = NullTotal
        THEN "TypeError" ELSE ""
      bad == {i \in DOMAIN hcs : raise_at(hcs[i]) # ""} IN
  IF bad = {} THEN "" ELSE raise_at(hcs[CHOOSE i \in bad : \A j \in bad : i <= j])

\* counted_by_name, as the list of its items: one per label, in the order of
\* the roster
services(inc, prog) ==
  LET hcs == of_type(inc, "Headcount") IN
  [ i \in DOMAIN SERVICE_NAMES |->
      [ service_name |-> SERVICE_NAMES[i],
        total |-> max_total(inc, hcs, SERVICE_NAMES[i], prog, 0) ] ]

\* grand_total += max_total
grand_total(svc) == SeqSum([i \in DOMAIN svc |-> svc[i].total])

\* the requests of a report
event_endpoint(event_id) == <<"events", event_id>>
event_times_endpoint(event_id, period_id) ==
  <<"events", event_id, "event_periods", period_id, "event_times">>

Raised(e) == [raised |-> e]
NoOut == [none |-> TRUE]
Run(reqs, out) == [reqs |-> reqs, out |-> out]

AggIdle ==
  /\ ag_date = NotADate
  /\ ag_fail = 0
  /\ ag_reqs = <<>>
  /\ ag_out = NoOut

\* a not-found result that carries empty totals
not_found_with_totals(event_obj, date_iso) ==
  [ event |-> event_obj, date |-> date_iso, totals |-> <<>>,
    error |-> <<"No event_period (session) found for", date_iso>> ]

\* simple.py: the result returned `if not period`
not_found(event_obj, date_iso) ==
  [ event |-> event_obj, date |-> date_iso,
    error |-> <<"No event_period (session) found for", date_iso>> ]

\* simple.py build_output(EVENT_ID, date_iso); fail: the request that raises
\* (0: none)
build_output_run(date_iso, fail, bk) ==
  LET r1 == <<event_endpoint(EVENT_ID)>>
      r2 == Append(r1, periods_endpoint(EVENT_ID)) IN
  IF fail = 1 THEN Run(r1, Raised("RequestException"))
  ELSE IF ~strptime_ok(date_iso) THEN Run(r1, Raised("ValueError"))
  ELSE IF fail = 2 THEN Run(r2, Raised("RequestException"))
  ELSE IF bk.periods = <<>>
  THEN Run(r2, not_found(EVENT_ID, date_iso))
  ELSE
    LET period == select_period(bk.periods)
        r3 == Append(r2, event_times_endpoint(EVENT_ID, period.id)) IN
    IF fail = 3 THEN Run(r3, Raised("RequestException"))
    ELSE
      LET fetched == pager_loop(session_chain(bk), EventTimesEndpoint, <<>>, <<>>, 0)
          hcs == headcounts_all(fetched[2])
          full == event_times_full(fetched[1], hcs)
          rn == r2 \o [k \in 1..fetched[3] |-> event_times_endpoint(EVENT_ID, period.id)] IN
      IF \E i \in DOMAIN full : sum_raises(full[i].headcounts) THEN Run(rn, Raised("TypeError"))
      ELSE IF sum_raises(hcs) THEN Run(rn, Raised("TypeError"))
      ELSE Run(rn,
        [ event |-> EVENT_ID, date |-> date_iso, event_period |-> period,
          event_times |-> full,
          totals |-> ("by_service_time" :> totals_by_service_time(full)) @@
                     ("by_attendance_type" :> totals_by_attendance_type(fetched[2], hcs)) @@
                     ("TOTAL ATTENDANCE" :> simple_grand_total(hcs)) ])

build_output(dates, fails) ==
  /\ server = "simple"
  /\ \E date_iso \in dates, fail \in fails :
       LET run == build_output_run(date_iso, fail, backend) IN
       /\ ag_date' = date_iso
       /\ ag_fail' = fail
       /\ ag_reqs' = run.reqs
       /\ ag_out' = run.out
  /\ UNCHANGED <<rlVars, thVars, pgVars, rsVars, backend, tlVars, stVars>>

\* the answers of the backend to the HTTP attempts of a request of a report
report_script(failing) ==
  [ i \in 1..max_retries |->
      IF failing THEN Resp("status", 404, "not found") ELSE Resp("status", 200, "docA") ]

\* working.py get_total_attendance_details_for_date(date), from the fetcher
\* state st; fail: the request the backend answers with an error (0: none)
get_total_attendance_run(date, fail, bk, st) ==
  LET r1 == <<periods_endpoint(EVENT_ID)>>
      failed == [error |-> <<"Failed to get attendance for", date>>] IN
  IF ~strptime_ok(date)
  THEN [reqs |-> <<>>, out |-> [error |-> <<"Invalid date format. Use YYYY-MM-DD.">>], st |-> st]
  ELSE
    LET f1 == fetch(st, report_script(fail = 1)) IN
    IF f1.result.kind # "ok" THEN [reqs |-> r1, out |-> failed, st |-> f1]
    ELSE IF bk.periods = <<>>
    THEN [reqs |-> r1, st |-> f1,
          out |-> [date |-> date, error |-> <<"No event_period (session) found for", date>>]]
    ELSE
      LET r2 == Append(r1, event_times_endpoint(EVENT_ID, select_period(bk.periods).id))
          f2 == fetch(f1, report_script(fail = 2))
          hcs == of_type(bk.included, "Headcount") IN
      IF f2.result.kind # "ok" THEN [reqs |-> r2, out |-> failed, st |-> f2]
      ELSE IF \E i \in DOMAIN hcs : relationships_raise("working", hcs[i]) # ""
      THEN [reqs |-> r2, out |-> failed, st |-> f2]
      ELSE LET svc == services(bk.included, "working") IN
           [reqs |-> r2, st |-> f2,
            out |-> [date |-> date, services |-> svc, grand_total |-> grand_total(svc)]]

\* cap: the call starts while fewer fetcher calls than this were accepted
get_total_attendance_details_for_date(dates, fails, cap) ==
  /\ server = "working"
  /\ Len(accepted) < cap
  /\ \E date \in dates, fail \in fails :
       LET run == get_total_attendance_run(date, fail, backend, FetcherState) IN
       /\ ag_date' = date
       /\ ag_fail' = fail
       /\ ag_reqs' = run.reqs
       /\ ag_out' = run.out
       /\ requests' = run.st.requests
       /\ now' = run.st.now
       /\ accepted' = run.st.accepted
       /\ result' = run.st.result
       /\ answers' = run.st.answers
  /\ UNCHANGED <<server, thVars, pgVars, rsVars, backend, tlVars, stVars>>

\* total.py main(): what it prints, as a report, or the exception it ends with
main_run(date, fail, bk) ==
  LET r1 == <<periods_endpoint(EVENT_ID)>> IN
  IF ~strptime_ok(date) THEN Run(<<>>, Raised("ValueError"))
  ELSE IF fail = 1 THEN Run(r1, Raised("HTTPStatusError"))
  ELSE IF bk.periods = <<>>
  THEN Run(r1, [printed |-> <<"No event period found for this date!">>])
  ELSE
    LET r2 == Append(r1, event_times_endpoint(EVENT_ID, select_period(bk.periods).id)) IN
    IF fail = 2 THEN Run(r2, Raised("HTTPStatusError"))
    ELSE IF first_raise(bk.included, of_type(bk.included, "Headcount")) # ""
    THEN Run(r2, Raised(first_raise(bk.included, of_type(bk.included, "Headcount"))))
    ELSE IF compare_raises(bk.included, of_type(bk.included, "Headcount"))
    THEN Run(r2, Raised("TypeError"))
    ELSE LET svc == services(bk.included, "total") IN
         Run(r2, [services |-> svc, grand_total |-> grand_total(svc)])

main(dates, fails) ==
  /\ server = "total"
  /\ \E date \in dates, fail \in fails :
       LET run == main_run(date, fail, backend) IN
       /\ ag_date' = date
       /\ ag_fail' = fail
       /\ ag_reqs' = run.reqs
       /\ ag_out' = run.out
  /\ UNCHANGED <<rlVars, thVars, pgVars, rsVars, backend, tlVars, stVars>>

(***************************************************************************)
(* People tools: get_person_details (working.py, main.py, tools.py),       *)
(* working.py get_person_complete_contact_info and                         *)
(* search_people_with_contact_info (working.py, main.py).                  *)
(***************************************************************************)
\* a JSON document: "docA" has a "data" member, "docB" has none
has_data(body) == body = "docA"

\* extract_person_data(person_data), for the person with the given id
extract_person_data(id) == [id |-> id, name |-> "", first_name |-> "", last_name |-> ""]

\* str(e) of the exception a failed fetcher call raised
str_e(res) == res.kind

\* working.py, main.py get_person_details(person_id)
person_details(person_id, res) ==
  IF res.kind = "ok" /\ has_data(res.body) THEN extract_person_data(person_id)
  ELSE IF res.kind = "ok" THEN [error |-> <<"Failed to get person details: ", "'data'">>]
  ELSE [error |-> <<"Failed to get person details: ", str_e(res)>>]

\* tools.py get_person_details(person_id): response.get("data", {}), and
\* `return {}` in the except branch
tools_person_details(person_id, res) ==
  IF res.kind = "ok" /\ has_data(res.body) THEN [id |-> person_id, type |-> "Person"]
  ELSE <<>>

\* the sub-resources of a person, in the order the tools fetch them
Kinds == <<"phone_numbers", "addresses", "emails">>

\* the entries a sub-resource tool builds from response.get("data", [])
entries(res) == IF has_data(res.body) THEN << [id |-> "1", primary |-> FALSE] >> ELSE <<>>

\* a sub-resource tool that answers a failure with an empty list
contact_list_quiet(kind, res) ==
  IF res.kind = "ok" THEN entries(res) ELSE <<>>

\* get_person_phone_numbers / get_person_addresses / get_person_emails, and
\* the three inner try blocks of get_person_complete_contact_info
contact_list(kind, res) ==
  IF res.kind = "ok" THEN entries(res)
  ELSE << [error |-> <<"Failed to get", kind, str_e(res)>>] >>

NoTool == "none"
ToolsIdle ==
  /\ tl_tool = NoTool
  /\ tl_in = <<>>
  /\ tl_calls = <<>>
  /\ tl_out = NoOut

\* a call made for a tool: what was asked for and how the fetcher call ended
Call(endpoint, res) == [endpoint |-> endpoint, result |-> res]

\* the state after a tool call that made the fetcher calls of `run`
ToolDone(tool, in, run, endpoints, out) ==
  /\ requests' = run.st.requests
  /\ now' = run.st.now
  /\ accepted' = run.st.accepted
  /\ result' = run.st.result
  /\ answers' = run.st.answers
  /\ tl_tool' = tool
  /\ tl_in' = in
  /\ tl_calls' = [i \in DOMAIN run.results |-> Call(endpoints[i], run.results[i])]
  /\ tl_out' = out
  /\ UNCHANGED <<server, thVars, pgVars, rsVars, agVars, stVars>>

\* get_person_details(person_id) of the running program; cap: accepted
\* fetcher calls per run; horizon: no call that sleeps starts after it
get_person_details(ids, scripts, cap, horizon) ==
  \E person_id \in ids, script \in scripts :
    LET run == fetch_each(FetcherState, <<script>>, <<>>)
        res == run.results[1] IN
    /\ res.kind # "RateLimitExceeded" => Len(accepted) < cap
    /\ res.sleeps # <<>> => now < horizon
    /\ ToolDone("get_person_details", [person_id |-> person_id], run,
                << <<"people", person_id>> >>,
                IF server = "client" THEN tools_person_details(person_id, res)
                ELSE person_details(person_id, res))

\* response.get("data", [])[:5] in working.py, [:10] in main.py
first_people(found) ==
  LET limit == IF server = "working" THEN 5 ELSE 10 IN
  SubSeq(found, 1, IF Len(found) < limit THEN Len(found) ELSE limit)

\* the sub-resources a call asks for, in the order they are fetched
wanted(include) == LET Asked(kind) == kind \in include IN SelectSeq(Kinds, Asked)

\* the fetcher calls of the enrichment: for each person, each sub-resource
todo(people, kinds) ==
  [ n \in 1..(Len(people) * Len(kinds)) |->
      <<"people", people[((n - 1) \div Len(kinds)) + 1], kinds[((n - 1) % Len(kinds)) + 1]>> ]

\* the person entry with the lists of its sub-resources; results: those of
\* the fetcher calls made for this person, one per kind
with_contacts(person_id, kinds, results) ==
  extract_person_data(person_id) @@
  [ kind \in {kinds[k] : k \in DOMAIN kinds} |->
      contact_list(kind, results[CHOOSE k \in DOMAIN kinds : kinds[k] = kind]) ]

\* working.py, main.py search_people_with_contact_info(query, include_phone,
\* include_address, include_email); founds: what the backend may list for the
\* query; cap: accepted fetcher calls before the call
search_people_with_contact_info(founds, scripts, subscripts, cap) ==
  /\ server \in {"working", "main"}
  /\ Len(accepted) < cap
  /\ \E found \in founds, include \in SUBSET {"phone_numbers", "addresses", "emails"},
        script \in scripts :
       LET first == fetch_each(FetcherState, <<script>>, <<>>)
           res == first.results[1]
           in == [found |-> found, include |-> include] IN
       IF res.kind # "ok"
       THEN ToolDone("search_people_with_contact_info", in, first, << <<"people">> >>,
                     << [error |-> <<"Failed to search people: ", str_e(res)>>] >>)
       ELSE
         LET people == IF has_data(res.body) THEN first_people(found) ELSE <<>>
             kinds == wanted(include)
             calls == todo(people, kinds) IN
         \E subs \in [DOMAIN calls -> subscripts] :
           LET run == fetch_each(first.st, subs, first.results) IN
           ToolDone("search_people_with_contact_info", in, run, << <<"people">> >> \o calls,
             [ i \in DOMAIN people |->
                 with_contacts(people[i], kinds,
                   SubSeq(run.results, 2 + (i - 1) * Len(kinds), 1 + i * Len(kinds))) ])

\* working.py get_person_complete_contact_info(person_id)
get_person_complete_contact_info(ids, scripts, subscripts, cap) ==
  /\ server = "working"
  /\ Len(accepted) < cap
  /\ \E person_id \in ids, script \in scripts :
       LET first == fetch_each(FetcherState, <<script>>, <<>>)
           res == first.results[1]
           in == [person_id |-> person_id] IN
       IF res.kind # "ok" \/ ~has_data(res.body)
       THEN ToolDone("get_person_complete_contact_info", in, first,
                     << <<"people", person_id>> >>, person_details(person_id, res))
       ELSE
         LET calls == todo(<<person_id>>, Kinds) IN
         \E subs \in [DOMAIN calls -> subscripts] :
           LET run == fetch_each(first.st, subs, first.results) IN
           ToolDone("get_person_complete_contact_info", in, run,
                    << <<"people", person_id>> >> \o calls,
                    with_contacts(person_id, Kinds, SubSeq(run.results, 2, 4)))

\* any("error" in item for item in l)
had_errors(l) == \E i \in DOMAIN l : "error" \in DOMAIN l[i]

\* working.py get_person_complete_contact_info_safe: result before its return
\* statement; results: those of its four fetcher calls
safe_result(person_id, results) ==
  LET basic_ok == results[1].kind = "ok" /\ has_data(results[1].body)
      lists == [k \in DOMAIN Kinds |-> contact_list(Kinds[k], results[k + 1])]
      basic_errors ==
        IF basic_ok THEN <<>>
        ELSE << <<"Basic info failed: ",
                  IF results[1].kind = "ok" THEN "'data'" ELSE str_e(results[1])>> >>
      list_errors == SelectSeq([k \in DOMAIN Kinds |-> <<Kinds[k], " had errors">>],
                               LAMBDA e : \E k \in DOMAIN Kinds : e[1] = Kinds[k] /\ had_errors(lists[k]))
      list_oks == {k \in DOMAIN Kinds : ~had_errors(lists[k])} IN
  [ person_id |-> person_id,
    basic_info |-> IF basic_ok THEN extract_person_data(person_id) ELSE <<>>,
    phone_numbers |-> lists[1],
    addresses |-> lists[2],
    emails |-> lists[3],
    errors |-> basic_errors \o list_errors,
    success_count |-> (IF basic_ok THEN 1 ELSE 0) + Cardinality(list_oks),
    total_requests |-> 4 ]

\* left @ mcp.tool(): neither a dict nor the decorator that mcp.tool()
\* returns implements the operator
matmul(left) == Raised("TypeError")

\* working.py get_person_complete_contact_info_safe(person_id), whose last
\* statement is `return result@mcp.tool()`
get_person_complete_contact_info_safe(ids, scripts, cap) ==
  /\ server = "working"
  /\ Len(accepted) < cap
  /\ \E person_id \in ids :
       LET calls == << <<"people", person_id>> >> \o todo(<<person_id>>, Kinds) IN
       \E subs \in [DOMAIN calls -> scripts] :
         LET run == fetch_each(FetcherState, subs, <<>>) IN
         ToolDone("get_person_complete_contact_info_safe", [person_id |-> person_id], run,
                  calls, matmul(safe_result(person_id, run.results)))

(***************************************************************************)
(* Listing tools: list_background_checks (tools.py, main.py) and main.py   *)
(* list_people_with_filters.                                               *)
(***************************************************************************)
\* a request's query parameters are a dict from a key to the parts of its
\* value; params[key] = value
set_param(ps, key, value) == (key :> value) @@ ps
\* if given: params[key] = value
param_if(ps, given, key, value) ==
  IF given # NoId THEN set_param(ps, key, value) ELSE ps

\* tools.py list_background_checks: params
tools_check_params(f) ==
  LET p1 == param_if(<<>>, f.status, "where[status]", <<f.status>>)
      p2 == param_if(p1, f.completed_after, "where[completed_at]", <<">", f.completed_after>>)
      p3 == param_if(p2, f.completed_before, "where[completed_at]", <<"<", f.completed_before>>)
      p4 == param_if(p3, f.check_type, "where[check_type]", <<f.check_type>>) IN
  IF f.include_person_details THEN set_param(p4, "include", <<"person">>) ELSE p4

\* main.py list_background_checks: params
main_check_params(f) ==
  LET p1 == param_if(<<>>, f.status, "where[status]", <<f.status>>)
      p2 == param_if(p1, f.completed_after, "where[completed_at][gte]", <<f.completed_after>>)
      p3 == param_if(p2, f.completed_before, "where[completed_at][lte]", <<f.completed_before>>) IN
  param_if(p3, f.check_type, "where[check_type]", <<f.check_type>>)

\* the person a check is enriched with; res: the result of the fetcher call
\* made for it
check_entry(n, person_id, res) ==
  IF server = "main"
  THEN [id |-> n, person |-> person_details(person_id, res)]
  ELSE IF res.kind # "ok" THEN [id |-> n, person_details |-> NoId]
  ELSE IF has_data(res.body) THEN [id |-> n, person_details |-> person_id]
  ELSE [id |-> n]

\* tools.py, main.py list_background_checks(status, completed_after,
\* completed_before, check_type, include_person_details); founds: the person
\* ids (None for a check without person) of the checks the backend may list
list_background_checks(filters, founds, scripts, subscripts, cap) ==
  /\ server \in {"main", "client"}
  /\ Len(accepted) < cap
  /\ \E f \in filters, found \in founds, script \in scripts, sub \in subscripts :
       LET asked_params == IF server = "main" THEN main_check_params(f) ELSE tools_check_params(f)
           first == fetch_each(FetcherState, <<script>>, <<>>)
           res == first.results[1]
           in == [filters |-> f, found |-> found]
           asked == << <<"background_checks", asked_params>> >> IN
       IF res.kind # "ok"
       THEN ToolDone("list_background_checks", in, first, asked,
                     IF server = "main"
                     THEN << [error |-> <<"Failed to get background checks: ", str_e(res)>>] >>
                     ELSE <<>>)
       ELSE
         LET checks == IF has_data(res.body) THEN found ELSE <<>>
             Known(person_id) == f.include_person_details /\ person_id # NoId
             rank(i) == Cardinality({j \in 1..i : Known(checks[j])})
             people == SelectSeq(checks, LAMBDA c : Known(c))
             calls == [n \in DOMAIN people |-> <<"people", people[n]>>]
             run == fetch_each(first.st, [n \in DOMAIN calls |-> sub], first.results) IN
         ToolDone("list_background_checks", in, run, asked \o calls,
           [ i \in DOMAIN checks |->
               IF Known(checks[i]) THEN check_entry(i, checks[i], run.results[1 + rank(i)])
               ELSE [id |-> i] ])

\* main.py list_people_with_filters(..., include_contact, limit) called
\* without age bounds; founds: the people the backend may list
list_people_with_filters(founds, scripts, subscripts, cap) ==
  /\ server = "main"
  /\ Len(accepted) < cap
  /\ \E found \in founds, include_contact \in BOOLEAN, script \in scripts, sub \in subscripts :
       LET first == fetch_each(FetcherState, <<script>>, <<>>)
           res == first.results[1]
           in == [found |-> found, include_contact |-> include_contact, limit |-> default_limit]
           asked == << <<"people", [per_page |-> default_limit]>> >> IN
       IF res.kind # "ok"
       THEN ToolDone("list_people_with_filters", in, first, asked,
                     << [error |-> <<"Failed to list people: ", str_e(res)>>] >>)
       ELSE
         LET people == IF has_data(res.body) THEN found ELSE <<>>
             calls == IF include_contact THEN todo(people, Kinds) ELSE <<>>
             run == fetch_each(first.st, [n \in DOMAIN calls |-> sub], first.results) IN
         ToolDone("list_people_with_filters", in, run, asked \o calls,
           [ i \in DOMAIN people |->
               IF include_contact
               THEN with_contacts(people[i], Kinds,
                      SubSeq(run.results, 2 + (i - 1) * Len(Kinds), 1 + i * Len(Kinds)))
               ELSE extract_person_data(people[i]) ])

(***************************************************************************)
(* Credentials: what each module does with the environment when loaded.    *)
(***************************************************************************)
\* what the upstream answers to a request that carries credentials it does
\* not know
Unauthorized == Resp("status", 401, "unauthorized")

\* working.py, main.py: os.getenv("PLANNING_CENTER_CLIENT_ID", "demo_client_id");
\* client.py: auth=(PLANNING_CENTER_CLIENT_ID or "demo", ...);
\* simple.py: if not CLIENT_ID or not SECRET: raise RuntimeError(...)
credentials(prog, e) ==
  IF e = "set" THEN "real"
  ELSE IF prog = "simple" THEN "RuntimeError" ELSE "demo"

\* the module of the running program is loaded
load_module ==
  /\ auth = "unloaded"
  /\ auth' = credentials(server, env)
  /\ UNCHANGED <<rlVars, thVars, pgVars, rsVars, agVars, tlVars, env>>

\* the answers of the upstream to the HTTP attempts of one call made with the
\* credentials the module holds
upstream_scripts(n) ==
  IF auth = "demo" THEN { [i \in 1..n |-> Unauthorized] } ELSE [1..n -> Responses]
upstream_answers ==
  IF auth = "demo" THEN {Unauthorized} ELSE Responses

(***************************************************************************)
(* The clock.                                                              *)
(***************************************************************************)
Tick ==
  /\ \E t \in Instants : t > now /\ now' = t
  /\ UNCHANGED <<server, requests, accepted, result, answers, thVars, pgVars, rsVars, agVars, tlVars, stVars>>

(***************************************************************************)
(* Sequential use of the rate-limited fetchers.                            *)
(***************************************************************************)
\* nothing was called yet
Blank ==
  /\ now = 0
  /\ requests = <<>>
  /\ accepted = <<>>
  /\ result = NoResult
  /\ answers = <<>>
  /\ pc = [th \in Threads |-> "idle"]
  /\ tmp = [th \in Threads |-> <<>>]
  /\ tres = [th \in Threads |-> NoResult]
  /\ PagerIdle
  /\ ResolverIdle
  /\ AggIdle
  /\ ToolsIdle

\* the state of every program right after its module is loaded with the
\* credentials of the environment
Fresh0 ==
  /\ Blank
  /\ env = "set"
  /\ auth = "real"

InitRL ==
  /\ server \in {"working", "main", "client"}
  /\ Fresh0
  /\ backend = NoBackend
  /\ chain = <<>>

SyncCall == make_sync_request(PlainScripts, MaxAccepted)
ApiCall == make_api_request(PlainResponses, MaxAccepted)
ClientCall == client_get(PlainResponses, MaxAccepted)

NextRL == Tick \/ SyncCall \/ ApiCall \/ ClientCall

SpecRL == InitRL /\ [][NextRL]_vars
(***************************************************************************)
(* Properties of the sequential rate limiter.                              *)
(***************************************************************************)
\* one call of a rate-limited fetcher
FetcherCall == SyncCall \/ ApiCall \/ ClientCall

\* the window ends at which the number of accepted calls can peak
WindowEnds == Instants \cup {accepted[i] : i \in DOMAIN accepted} \cup {now}

\* no half-open 60-second window holds more than 100 accepted calls
WindowBound == \A T \in WindowEnds : InWindow(accepted, T) <= 100

\* a call is accepted exactly when fewer than 100 calls were accepted in the
\* trailing 60 seconds; a rejected call raises the rate-limit error with no
\* HTTP attempt made
AcceptRule ==
  FetcherCall =>
    IF InWindow(accepted, now) < 100
    THEN /\ Len(accepted') = Len(accepted) + 1
         /\ result'.kind # "RateLimitExceeded"
         /\ result'.attempts >= 1
    ELSE /\ accepted' = accepted
         /\ result'.kind = "RateLimitExceeded"
         /\ result'.attempts = 0

\* C1: under sequential use a fetcher call is accepted only while fewer than
\* 100 calls were accepted in the trailing 60 seconds, the call that finds 100
\* calls in the window fails with the rate-limit error before any HTTP request,
\* and no 60-second window ever holds more than 100 accepted calls.
C1_RateLimit == []WindowBound /\ [][AcceptRule]_vars

\* the 101st call inside one window was rejected
C1_Witness ==
  /\ result.kind = "RateLimitExceeded"
  /\ InWindow(accepted, now) = 100
  /\ Len(requests) = 100

\* the timestamps of `reqs` that are 60 seconds old or older at time t
Expired(reqs, t) == SelectSeq(reqs, LAMBDA r : t - r >= 60)
Fresh(reqs, t) == SelectSeq(reqs, LAMBDA r : t - r < 60)

\* a call evicts exactly the timestamps that are 60 s old or older, one slot
\* each, and is accepted as soon as the oldest recorded call is 60 s old
RecoveryRule ==
  FetcherCall =>
    /\ Len(requests) <= 100
    /\ \/ requests' = Fresh(requests, now)
       \/ \E t \in RecordTimes : requests' = Append(Fresh(requests, now), t)
    /\ Len(requests') - (IF result'.kind = "RateLimitExceeded" THEN 0 ELSE 1)
         = Len(requests) - Len(Expired(requests, now))
    /\ (requests # <<>> /\ now - requests[1] >= 60) =>
         result'.kind # "RateLimitExceeded"

\* the window changes only in a fetcher call: the passing of time evicts nothing
EvictOnlyInCall == (requests' # requests) => FetcherCall

\* C2: once the window is full, a call is accepted again as soon as 60 seconds
\* have passed since the oldest recorded call, whatever the age of the other
\* timestamps; timestamps leave the window only by eviction at 60 s of age,
\* and every eviction frees exactly one slot.
C2_Recovery == [][RecoveryRule /\ EvictOnlyInCall]_vars

\* the 101st call was accepted 60 s after the oldest call while the 99 other
\* timestamps of the full window were still inside it
C2_Witness ==
  /\ Len(accepted) = 101
  /\ result.kind = "ok"
  /\ Len(requests) = 100
  /\ now - accepted[1] = 60
  /\ \A i \in 1..99 : now - requests[i] < 60 /\ requests[i] < now
(***************************************************************************)
(* The retrying fetchers against a backend that may fail.                  *)
(***************************************************************************)
InitFetch ==
  /\ server \in {"working", "simple"}
  /\ Fresh0
  /\ backend = NoBackend
  /\ chain = <<>>

FetchSync == make_sync_request(Scripts, FetchCalls)
FetchSimple == now < FetchHorizon /\ simple_request(SimpleScripts)

NextFetch == FetchSync \/ FetchSimple

SpecFetch == InitFetch /\ [][NextFetch]_vars

IsSuccess(r) == r.kind = "status" /\ r.code < 400
\* a 4xx other than 429
IsClientError(r) == r.kind = "status" /\ r.code >= 400 /\ r.code < 500 /\ r.code # 429
\* a transport timeout, a 5xx or a 429
IsRetryable(r) ==
  \/ r.kind = "timeout"
  \/ r.kind = "status" /\ (r.code >= 500 \/ r.code = 429)

\* C4: a 4xx answer other than 429 is never retried: it is the only and last
\* HTTP attempt of its call, and the call raises a client error that carries
\* the status code and the body of that answer.
C4_ClientErrorNotRetried ==
  \A i \in DOMAIN answers :
    IsClientError(answers[i]) =>
      /\ i = Len(answers)
      /\ result.kind \in {"ClientError", "HTTPError"}
      /\ result.status = answers[i].code
      /\ result.body = answers[i].body

\* C5: a timeout, a 5xx or a 429 is retried, at most 3 HTTP attempts are made
\* per call, the call returns the document of the first successful attempt,
\* and 3 retryable failures raise an error whose message names the 3 attempts.
C5_RetryCeiling ==
  /\ Len(answers) <= 3
  /\ result.attempts = Len(answers)
  /\ \A i \in DOMAIN answers : (IsRetryable(answers[i]) /\ i < 3) => Len(answers) > i
  /\ \A i \in DOMAIN answers : IsSuccess(answers[i]) =>
       (i = Len(answers) /\ result.kind = "ok" /\ result.body = answers[i].body)
  /\ (Len(answers) = 3 /\ \A i \in DOMAIN answers : IsRetryable(answers[i])) =>
       (result.kind # "ok" /\ result.msg_n = Len(answers))

\* the delay the running fetcher sleeps after answer r to attempt number attempt
DelayAfter(r, attempt) ==
  IF server = "simple" THEN request_delay(r) ELSE sync_delay(r, attempt)

\* C6: within one call every delay is strictly larger than the delay before
\* it, and the delay after a 429 is longer than the delay the same attempt
\* gets after a timeout or a 5xx.
C6_Backoff ==
  /\ \A i \in DOMAIN result.sleeps :
       i > 1 => result.sleeps[i] > result.sleeps[i - 1]
  /\ \A i \in DOMAIN result.sleeps :
       (answers[i].kind = "status" /\ answers[i].code = 429) =>
         /\ result.sleeps[i] > DelayAfter(Resp("timeout", 0, ""), i - 1)
         /\ result.sleeps[i] > DelayAfter(Resp("status", 500, "oops"), i - 1)
(***************************************************************************)
(* Parallel tool invocations.  working.py: the synchronous tools run on    *)
(* threads, which may be switched between any two statements of            *)
(* can_make_request / record_request.  main.py, client.py: coroutines,     *)
(* switched only at an await, and there is none between the check and the  *)
(* record.                                                                 *)
(***************************************************************************)
InFlight == {th \in Threads : pc[th] \in {"filtered", "stored", "allowed"}}

\* can_make_request: the list comprehension builds the pruned list
W_Filter(th) ==
  /\ server = "working"
  /\ pc[th] = "idle"
  /\ Len(accepted) + Cardinality(InFlight) < ConcCalls
  /\ tmp' = [tmp EXCEPT ![th] = Prune(requests, now)]
  /\ pc' = [pc EXCEPT ![th] = "filtered"]
  /\ UNCHANGED <<rlVars, tres, pgVars, rsVars, agVars, tlVars, stVars>>

\* can_make_request: self.requests = <the pruned list>
W_Store(th) ==
  /\ server = "working"
  /\ pc[th] = "filtered"
  /\ requests' = tmp[th]
  /\ tmp' = [tmp EXCEPT ![th] = <<>>]
  /\ pc' = [pc EXCEPT ![th] = "stored"]
  /\ UNCHANGED <<server, now, accepted, result, answers, tres, pgVars, rsVars, agVars, tlVars, stVars>>

\* can_make_request: return len(self.requests) < self.max_requests, and the
\* raise of make_sync_request when it is false
W_Count(th) ==
  /\ server = "working"
  /\ pc[th] = "stored"
  /\ IF Len(requests) < max_requests
     THEN pc' = [pc EXCEPT ![th] = "allowed"] /\ UNCHANGED tres
     ELSE /\ pc' = [pc EXCEPT ![th] = "idle"]
          /\ tres' = [tres EXCEPT ![th] = RateLimitExceeded]
  /\ UNCHANGED <<rlVars, tmp, pgVars, rsVars, agVars, tlVars, stVars>>

\* record_request: self.requests.append(time.time())
W_Record(th) ==
  /\ server = "working"
  /\ pc[th] = "allowed"
  /\ requests' = record_request(requests, now)
  /\ accepted' = Append(accepted, now)
  /\ pc' = [pc EXCEPT ![th] = "http"]
  /\ UNCHANGED <<server, now, result, answers, tmp, tres, pgVars, rsVars, agVars, tlVars, stVars>>

\* the HTTP attempts of make_sync_request
W_Http(th) ==
  /\ server = "working"
  /\ pc[th] = "http"
  /\ \E script \in PlainScripts :
       tres' = [tres EXCEPT ![th] = sync_attempts(script, 0, <<>>)]
  /\ pc' = [pc EXCEPT ![th] = "idle"]
  /\ UNCHANGED <<rlVars, tmp, pgVars, rsVars, agVars, tlVars, stVars>>

\* make_api_request / PlanningCenterClient.get up to the first await
A_Start(th) ==
  /\ server \in {"main", "client"}
  /\ pc[th] = "idle"
  /\ LET kept == IF server = "main" THEN Prune(requests, now)
                 ELSE ClientPrune(requests, now)
         full == IF server = "main" THEN ~can_make_request(requests, now)
                 ELSE Len(kept) >= RATE_LIMIT
     IN  IF full
         THEN /\ requests' = kept
              /\ tres' = [tres EXCEPT ![th] = RateLimitExceeded]
              /\ UNCHANGED <<accepted, pc>>
         ELSE /\ Len(accepted) < ConcCalls
              /\ requests' = Append(kept, now)
              /\ accepted' = Append(accepted, now)
              /\ pc' = [pc EXCEPT ![th] = "http"]
              /\ UNCHANGED tres
  /\ UNCHANGED <<server, now, result, answers, tmp, pgVars, rsVars, agVars, tlVars, stVars>>

\* await client.get(...); raise_for_status(); return response.json()
A_Http(th) ==
  /\ server \in {"main", "client"}
  /\ pc[th] = "http"
  /\ \E r \in PlainResponses : tres' = [tres EXCEPT ![th] = api_attempt(r)]
  /\ pc' = [pc EXCEPT ![th] = "idle"]
  /\ UNCHANGED <<rlVars, tmp, pgVars, rsVars, agVars, tlVars, stVars>>

InitConc ==
  /\ server \in {"working", "main", "client"}
  /\ Fresh0
  /\ backend = NoBackend
  /\ chain = <<>>

NextConc ==
  \/ Tick
  \/ \E th \in Threads :
       \/ W_Filter(th) \/ W_Store(th) \/ W_Count(th) \/ W_Record(th) \/ W_Http(th)
       \/ A_Start(th) \/ A_Http(th)

SpecConc == InitConc /\ [][NextConc]_vars

\* the number of entries of list s that equal v
Count(s, v) == Cardinality({i \in DOMAIN s : s[i] = v})

\* every accepted timestamp that is less than 60 s old is in the window
NoLostTimestamp ==
  \A i \in DOMAIN accepted :
    now - accepted[i] < 60 => Count(requests, accepted[i]) = Count(accepted, accepted[i])

\* C3: under every interleaving of parallel fetcher calls the prune / count /
\* record steps act as one atomic step: no 60-second window holds more than
\* 100 accepted calls and no accepted call's timestamp is lost from the window.
C3_AtomicWindow == WindowBound /\ NoLostTimestamp
(***************************************************************************)
(* The pager against a finite chain of pages.                              *)
(***************************************************************************)
LastLinks == {NoLink, EmptyLink}

\* pages 1..n, each linking to the next one, the last one without a link
FiniteChains ==
  UNION { { [k \in 1..n |-> Page(k, d[k], inc[k], IF k < n THEN Absolute(k + 1) ELSE l)] :
              d \in [1..n -> 0..MaxRecs], inc \in [1..n -> -1..MaxRecs], l \in LastLinks } :
          n \in 1..MaxPages }

InitPager ==
  /\ server = "simple"
  /\ Fresh0
  /\ backend = NoBackend
  /\ chain \in FiniteChains

NextPager == PagerStart \/ PagerRequest \/ PagerProcess

SpecPager == InitPager /\ [][NextPager]_vars

\* what a complete read of the chain from page k on collects
RECURSIVE ChainData(_, _)
ChainData(c, k) ==
  c[k].data \o (IF k < Len(c) THEN ChainData(c, k + 1) ELSE <<>>)
RECURSIVE ChainIncluded(_, _)
ChainIncluded(c, k) ==
  (IF c[k].has_included THEN c[k].included ELSE <<>>)
    \o (IF k < Len(c) THEN ChainIncluded(c, k + 1) ELSE <<>>)

\* C7: for a finite chain of pages the pager returns the concatenation of all
\* data arrays and of all included arrays, in page order, no page skipped or
\* repeated; a page without an included key adds nothing to the included list.
C7_PagerResult ==
  pg_pc = "done" =>
    /\ all_times = ChainData(chain, 1)
    /\ included = ChainIncluded(chain, 1)

\* a 2+2+1 chain of three pages was read, one page of it without included
C7_Witness ==
  /\ pg_pc = "done"
  /\ Len(chain) = 3
  /\ Len(all_times) = 5
  /\ Len(chain[3].data) = 1
  /\ ~chain[2].has_included
  /\ Len(included) = 3

\* C8: the first request carries the caller's params; every later request goes
\* to exactly the links.next URL of the page before it, with no params; paging
\* stops after the first page without a next link, so n pages cost n calls.
C8_PagerProtocol ==
  /\ \A i \in DOMAIN reqlog :
       IF i = 1
       THEN reqlog[i] = [url |-> Absolute(1), params |-> CallerParams]
       ELSE /\ reqlog[i].url = chain[reqlog[i - 1].url.page].next
            /\ reqlog[i].params = {}
  /\ \A i \in DOMAIN reqlog :
       i < Len(reqlog) => chain[reqlog[i].url.page].next \notin LastLinks
  /\ pg_pc = "done" =>
       /\ Len(reqlog) = Len(chain)
       /\ chain[reqlog[Len(reqlog)].url.page].next \in LastLinks

\* three requests were sent for a chain of three pages
C8_Witness ==
  /\ pg_pc = "done"
  /\ Len(chain) = 3
  /\ Len(reqlog) = 3
  /\ reqlog[3] = [url |-> Absolute(3), params |-> {}]

(***************************************************************************)
(* The pager against a backend whose links may form a cycle.  The pages    *)
(* carry no records, so that a run around a cycle revisits its states.     *)
(***************************************************************************)
AnyChains ==
  UNION { { [k \in 1..n |-> Page(k, 0, -1, l[k])] :
              l \in [1..n -> LastLinks \cup {Absolute(j) : j \in 1..n}] } :
          n \in 1..MaxPages }

InitPagerAny ==
  /\ server = "simple"
  /\ Fresh0
  /\ backend = NoBackend
  /\ chain \in AnyChains

\* a call that has started goes on: every step of the pager is taken
SpecPagerFair ==
  /\ InitPagerAny
  /\ [][NextPager]_vars
  /\ WF_vars(PagerStart)
  /\ WF_vars(PagerRequest)
  /\ WF_vars(PagerProcess)

\* C9: whatever the links of the backend, a cyclic or repeating links.next
\* included, the paging loop ends: it returns, or it fails.
C9_PagerTerminates == <>(pg_pc \in {"done", "error"})
(***************************************************************************)
(* The session resolver against the event_periods endpoint.                *)
(***************************************************************************)
\* the date arguments tried: month ends, a leap day, a year end, texts
\* without leading zeros, and texts that are no calendar date
DateInputs ==
  { DateText(2025, 9, 21, TRUE), DateText(2025, 9, 7, FALSE),
    DateText(2025, 9, 30, TRUE), DateText(2024, 2, 28, TRUE),
    DateText(2024, 2, 29, TRUE), DateText(2025, 2, 28, TRUE),
    DateText(2025, 12, 31, TRUE),
    DateText(2025, 2, 29, TRUE), DateText(2025, 9, 31, TRUE),
    DateText(2025, 13, 1, TRUE), NotADate }

\* the periods of one day, by hour of start; the backend lists them in
\* ascending order of starts_at, as the query asks
PeriodPool ==
  { [id |-> "p1", starts_at |-> 8], [id |-> "p2", starts_at |-> 10],
    [id |-> "p3", starts_at |-> 10], [id |-> "p4", starts_at |-> 12] }
PeriodLists ==
  { l \in UNION { [1..n -> PeriodPool] : n \in 0..MaxPeriods } :
      /\ \A i, j \in DOMAIN l : i < j => l[i].starts_at <= l[j].starts_at
      /\ \A i, j \in DOMAIN l : i # j => l[i] # l[j] }

InitResolve ==
  /\ server \in {"simple", "working"}
  /\ Fresh0
  /\ backend = NoBackend
  /\ chain = <<>>

SimpleResolve == fetch_event_period_for_date(DateInputs, PeriodLists)
WorkingResolve == resolve_period_id(DateInputs, PeriodLists)

NextResolve == SimpleResolve \/ WorkingResolve

SpecResolve == InitResolve /\ [][NextResolve]_vars

\* the day after a calendar date, by the calendar's rules
DayAfter(dt) ==
  IF dt[3] < DaysInMonth(dt[1], dt[2]) THEN <<dt[1], dt[2], dt[3] + 1>>
  ELSE IF dt[2] < 12 THEN <<dt[1], dt[2] + 1, 1>>
  ELSE <<dt[1] + 1, 1, 1>>

\* C10: for a valid date D the resolver issues exactly one request, filtered
\* to starts_at >= D and starts_at < D + 1 day, ordered by starts_at, page
\* size 100; when one or more periods are listed it selects the first of the
\* list, the earliest start, whatever their number.
C10_Resolve ==
  strptime_ok(rs_date) =>
    LET D == <<rs_date.y, rs_date.m, rs_date.d>> IN
    /\ Len(rs_reqs) = 1
    /\ rs_reqs[1].endpoint = <<"events", "701347", "event_periods">>
    /\ rs_reqs[1].params.gte = DateText(D[1], D[2], D[3], TRUE)
    /\ LET N == DayAfter(D) IN rs_reqs[1].params.lt = DateText(N[1], N[2], N[3], TRUE)
    /\ rs_reqs[1].params.order = "starts_at"
    /\ rs_reqs[1].params.per_page = 100
    /\ rs_periods # <<>> =>
         /\ rs_out.kind = "period"
         /\ rs_out.id = rs_periods[1].id
         /\ \A i \in DOMAIN rs_periods : rs_periods[1].starts_at <= rs_periods[i].starts_at

\* three periods were listed for the last day of a year and the first was taken
C10_Witness ==
  /\ rs_date = DateText(2025, 12, 31, TRUE)
  /\ Len(rs_reqs) = 1
  /\ rs_reqs[1].params.lt = DateText(2026, 1, 1, TRUE)
  /\ Len(rs_periods) = 3
  /\ rs_out = [kind |-> "period", id |-> rs_periods[1].id]

(***************************************************************************)
(* Attendance reports on the session data of one date.                     *)
(***************************************************************************)
\* the attendance types of the session: two roster labels and one other
\* name; in the second list the type "a2" is not included
TypeLists ==
  { << AttendanceType("a1", "EH 8:15am"), AttendanceType("a2", "EH 10:15am"),
       AttendanceType("a3", "Kids") >>,
    << AttendanceType("a1", "EH 8:15am"), AttendanceType("a3", "Kids") >> }

\* the headcounts: a total that is a count, missing or null; with or without
\* an event_time and an attendance_type relationship
HeadcountPool ==
  { Headcount(t, et, at) : t \in {MissingTotal, NullTotal, 40, 55},
                           et \in {NoId, "t1", "t2"}, at \in {NoId, "a1", "a2", "a3"} }
HeadcountLists == UNION { [1..n -> HeadcountPool] : n \in 0..MaxHC }

EventTimeLists ==
  { <<>>, << EventTime("t1", "09:00") >>,
    << EventTime("t1", "09:00"), EventTime("t2", "11:00") >>,
    << EventTime("t2", "11:00"), EventTime("t1", "09:00") >> }

Backends ==
  { [periods |-> p, event_times |-> e, included |-> h \o a, later |-> <<>>] :
      p \in { <<>>, << [id |-> "p1", starts_at |-> 8], [id |-> "p2", starts_at |-> 10] >> },
      e \in EventTimeLists, h \in HeadcountLists, a \in TypeLists }

AggDates == { DateText(2025, 9, 21, TRUE), NotADate }

InitAgg ==
  /\ server \in {"simple", "working", "total"}
  /\ Fresh0
  /\ chain = <<>>
  /\ backend \in Backends

BuildOutput == build_output(AggDates, 0..3)
TotalAttendance == get_total_attendance_details_for_date(AggDates, 0..2, AggCalls)
TotalMain == main(AggDates, 0..2)

NextAgg == BuildOutput \/ TotalAttendance \/ TotalMain

SpecAgg == InitAgg /\ [][NextAgg]_vars

\* what the statements below read off the backend's data
Headcounts == of_type(backend.included, "Headcount")
\* a Headcount total as the specification counts it: 0 when missing or null
Counted(h) == IF h.total \in {MissingTotal, NullTotal} THEN 0 ELSE h.total
\* the sum of the counted totals of the headcounts that satisfy P
SumWhere(P(_)) ==
  LET hs == SelectSeq(Headcounts, P) IN SeqSum([i \in DOMAIN hs |-> Counted(hs[i])])
Everyone(h) == TRUE
\* the label a headcount resolves to through the attendance types included
LabelOf(h) ==
  IF h.at = NoId THEN NoId
  ELSE IF \E i \in DOMAIN backend.included :
            backend.included[i].type = "AttendanceType" /\ backend.included[i].id = h.at
  THEN (CHOOSE x \in {backend.included[i] : i \in DOMAIN backend.included} :
          x.type = "AttendanceType" /\ x.id = h.at).name
  ELSE NoId
TotalsOf(s) == SeqSum([i \in DOMAIN s |-> s[i].total])
\* the last call asked with a valid date and every request of it was answered
Answered == strptime_ok(ag_date) /\ ag_fail = 0 /\ ag_out # NoOut
SessionFound == Answered /\ backend.periods # <<>>

\* C11: when the period query is answered with zero periods, the call makes
\* no event_times request and returns, without raising, a result with the
\* not-found message and the date, without event_period, event_times, totals,
\* services or grand_total: build_output returns exactly event, date and
\* error, get_total_attendance_details_for_date exactly date and error.
C11_NotFound ==
  (server \in {"simple", "working"} /\ Answered /\ backend.periods = <<>>) =>
    /\ \A i \in DOMAIN ag_reqs : Len(ag_reqs[i]) <= 3
    /\ ag_reqs[Len(ag_reqs)] = <<"events", "701347", "event_periods">>
    /\ DOMAIN ag_out \subseteq {"event", "date", "error"}
    /\ DOMAIN ag_out = IF server = "simple" THEN {"event", "date", "error"} ELSE {"date", "error"}
    /\ ag_out.date = ag_date
    /\ ag_out.error = <<"No event_period (session) found for", ag_date>>

\* build_output met a date without a session
C11_Witness ==
  /\ server = "simple"
  /\ Answered
  /\ backend.periods = <<>>
  /\ Len(backend.included) > 3
  /\ Len(ag_reqs) = 2
  /\ "error" \in DOMAIN ag_out

\* C12: in every result of build_output that has totals, the by_service_time
\* totals, the by_attendance_type totals and TOTAL ATTENDANCE all add up to
\* the sum of the totals of all the Headcounts included, also when a
\* headcount has no event_time or names an event time that was not fetched.
C12_Partition ==
  (server = "simple" /\ "totals" \in DOMAIN ag_out) =>
    /\ ag_out.totals["TOTAL ATTENDANCE"] = SumWhere(Everyone)
    /\ TotalsOf(ag_out.totals["by_attendance_type"]) = SumWhere(Everyone)
    /\ TotalsOf(ag_out.totals["by_service_time"]) = SumWhere(Everyone)

\* C13: a Headcount whose total is missing or null counts as 0: whenever a
\* session is found the report is produced, never an exception or an error,
\* and its aggregates are those of the totals with missing and null read as 0.
C13_NullCountsZero ==
  SessionFound =>
    /\ "raised" \notin DOMAIN ag_out
    /\ "error" \notin DOMAIN ag_out
    /\ server = "simple" =>
         /\ ag_out.totals["TOTAL ATTENDANCE"] = SumWhere(Everyone)
         /\ TotalsOf(ag_out.totals["by_attendance_type"]) = SumWhere(Everyone)
    /\ server \in {"working", "total"} =>
         \A i \in DOMAIN ag_out.services :
           LET Mine(h) == LabelOf(h) = ag_out.services[i].service_name IN
           /\ \A j \in DOMAIN Headcounts :
                Mine(Headcounts[j]) => Counted(Headcounts[j]) <= ag_out.services[i].total
           /\ ag_out.services[i].total <= SumWhere(Mine)

\* C14: by_service_time has one entry per fetched event time, in the order
\* fetched, and the total of each is the sum of the totals of the headcounts
\* whose event_time is that event time, 0 when there is none.
C14_ByServiceTime ==
  (server = "simple" /\ "totals" \in DOMAIN ag_out) =>
    LET bst == ag_out.totals["by_service_time"] IN
    /\ Len(bst) = Len(backend.event_times)
    /\ \A i \in DOMAIN bst :
         LET At(h) == h.et = backend.event_times[i].id IN
         /\ bst[i].event_time_id = backend.event_times[i].id
         /\ bst[i].starts_at = backend.event_times[i].starts_at
         /\ bst[i].total = SumWhere(At)

\* two event times were fetched, the second has both headcounts and the
\* first has none
C14_Witness ==
  /\ server = "simple"
  /\ "totals" \in DOMAIN ag_out
  /\ Len(Headcounts) = 2
  /\ \A j \in DOMAIN Headcounts : Headcounts[j].et = "t1"
  /\ Headcounts[1].total = 55 /\ Headcounts[2].total = 40
  /\ backend.event_times = << EventTime("t2", "11:00"), EventTime("t1", "09:00") >>
  /\ ag_out.totals["by_service_time"][1].total = 0
  /\ ag_out.totals["by_service_time"][2].total = 95

\* the attendance_type ids that occur among the headcounts, NoId for the
\* headcounts without the relationship
TypeIds == {Headcounts[j].at : j \in DOMAIN Headcounts}

\* C15: by_attendance_type has exactly one entry per distinct
\* attendance_type_id among the headcounts, with the sum of the totals of that
\* group and the name the included AttendanceType gives the id; the
\* headcounts without attendance_type form one group of their own, reported
\* with attendance_type_id null and name "", with their total.
C15_ByAttendanceType ==
  (server = "simple" /\ "totals" \in DOMAIN ag_out) =>
    LET bat == ag_out.totals["by_attendance_type"] IN
    /\ Len(bat) = Cardinality(TypeIds)
    /\ {bat[i].attendance_type_id : i \in DOMAIN bat} = TypeIds
    /\ \A i \in DOMAIN bat :
         LET Group(h) == h.at = bat[i].attendance_type_id IN
         /\ bat[i].total = SumWhere(Group)
         /\ bat[i].attendance_type_id = NoId => bat[i].name = ""
         /\ \A j \in DOMAIN backend.included :
              ( backend.included[j].type = "AttendanceType"
                /\ backend.included[j].id = bat[i].attendance_type_id )
              => bat[i].name = backend.included[j].name

\* a headcount of 40 without attendance type and one of 55 of type "a1"
C15_Witness ==
  /\ server = "simple"
  /\ "totals" \in DOMAIN ag_out
  /\ Len(Headcounts) = 2
  /\ Headcounts[1].at = NoId /\ Headcounts[1].total = 40
  /\ Headcounts[2].at = "a1" /\ Headcounts[2].total = 55
  /\ ag_out.totals["by_attendance_type"] =
       << [attendance_type_id |-> NoId, name |-> "", total |-> 40],
          [attendance_type_id |-> "a1", name |-> "EH 8:15am", total |-> 55] >>

\* the largest counted total among the headcounts that satisfy P, 0 if none
MaxWhere(P(_)) ==
  LET ts == {0} \cup {Counted(Headcounts[j]) : j \in {k \in DOMAIN Headcounts : P(Headcounts[k])}} IN
  CHOOSE t \in ts : \A u \in ts : u <= t

\* C16: in the named-service reports the total of a label is the maximum of
\* the totals of the headcounts whose attendance type has exactly that name,
\* never their sum, and grand_total is the sum of these maxima.
C16_MaxSelect ==
  (server \in {"working", "total"} /\ "services" \in DOMAIN ag_out) =>
    /\ \A i \in DOMAIN ag_out.services :
         LET Mine(h) == LabelOf(h) = ag_out.services[i].service_name IN
         ag_out.services[i].total = MaxWhere(Mine)
    /\ ag_out.grand_total = TotalsOf(ag_out.services)

\* rows of 40 and 55 for "EH 8:15am" were reported as 55
C16_Witness ==
  /\ server = "working"
  /\ "services" \in DOMAIN ag_out
  /\ Len(Headcounts) = 2
  /\ Headcounts[1].at = "a1" /\ Headcounts[1].total = 40
  /\ Headcounts[2].at = "a1" /\ Headcounts[2].total = 55
  /\ ag_out.services[3] = [service_name |-> "EH 8:15am", total |-> 55]
  /\ ag_out.grand_total = 55

\* C17: whenever a session is found, services has exactly one entry per label
\* of the roster, in the order of the roster whatever the order of the
\* headcounts in the response, and a label that no headcount matches has
\* total 0.
C17_Roster ==
  (server = "working" /\ SessionFound) =>
    /\ "services" \in DOMAIN ag_out
    /\ [i \in DOMAIN ag_out.services |-> ag_out.services[i].service_name] =
         <<"EH 10:15am", "EH 12:15pm", "EH 8:15am", "EW 11:00am", "EW 9:00am">>
    /\ \A i \in DOMAIN ag_out.services :
         (\A j \in DOMAIN Headcounts : LabelOf(Headcounts[j]) # ag_out.services[i].service_name)
         => ag_out.services[i].total = 0

\* the response lists the headcount of "EH 8:15am" before that of
\* "EH 10:15am"; the report lists "EH 10:15am" first
C17_Witness ==
  /\ server = "working"
  /\ SessionFound
  /\ Len(Headcounts) = 2
  /\ LabelOf(Headcounts[1]) = "EH 8:15am" /\ Headcounts[1].total = 40
  /\ LabelOf(Headcounts[2]) = "EH 10:15am" /\ Headcounts[2].total = 55
  /\ ag_out.services[1] = [service_name |-> "EH 10:15am", total |-> 55]
  /\ ag_out.services[2] = [service_name |-> "EH 12:15pm", total |-> 0]
  /\ ag_out.services[3] = [service_name |-> "EH 8:15am", total |-> 40]

Recognized(h) == \E i \in DOMAIN SERVICE_NAMES : LabelOf(h) = SERVICE_NAMES[i]

\* C18: grand_total of a named-service report is at most the sum of all the
\* headcount totals of the session, and it is that sum when every headcount
\* has a recognized label and no two headcounts have the same label.
C18_GrandTotalBound ==
  (server \in {"working", "total"} /\ "services" \in DOMAIN ag_out) =>
    /\ ag_out.grand_total <= SumWhere(Everyone)
    /\ ( /\ \A j \in DOMAIN Headcounts : Recognized(Headcounts[j])
         /\ \A j, k \in DOMAIN Headcounts :
              j # k => LabelOf(Headcounts[j]) # LabelOf(Headcounts[k]) )
       => ag_out.grand_total = SumWhere(Everyone)

\* "EH 8:15am" = 40 and "EH 10:15am" = 55 gave grand_total 95
C18_Witness ==
  /\ server = "working"
  /\ "services" \in DOMAIN ag_out
  /\ Len(Headcounts) = 2
  /\ LabelOf(Headcounts[1]) = "EH 10:15am" /\ Headcounts[1].total = 55
  /\ LabelOf(Headcounts[2]) = "EH 8:15am" /\ Headcounts[2].total = 40
  /\ ag_out.grand_total = 95

(***************************************************************************)
(* get_person_details under every outcome of its request.                  *)
(***************************************************************************)
\* the backend's answers to a person lookup: the person, a document without
\* "data", a 404, three 429s, two timeouts before the person, three 500s
ToolScripts ==
  { <<Resp("status", 200, "docA"), Resp("status", 200, "docA"), Resp("status", 200, "docA")>>,
    <<Resp("status", 200, "docB"), Resp("status", 200, "docB"), Resp("status", 200, "docB")>>,
    <<Resp("status", 404, "not found"), Resp("status", 404, "not found"), Resp("status", 404, "not found")>>,
    <<Resp("status", 429, "slow down"), Resp("status", 429, "slow down"), Resp("status", 429, "slow down")>>,
    <<Resp("timeout", 0, ""), Resp("timeout", 0, ""), Resp("status", 200, "docA")>>,
    <<Resp("status", 500, "oops"), Resp("status", 500, "oops"), Resp("status", 500, "oops")>> }

PersonIds == {"p1"}

InitTools ==
  /\ server \in {"working", "main", "client"}
  /\ Fresh0
  /\ backend = NoBackend
  /\ chain = <<>>

WorkingPersonDetails ==
  server = "working" /\ get_person_details(PersonIds, ToolScripts, ToolCalls, ToolHorizon)
MainPersonDetails ==
  server = "main" /\ get_person_details(PersonIds, ToolScripts, ToolCalls, ToolHorizon)
ToolsPersonDetails ==
  server = "client" /\ get_person_details(PersonIds, ToolScripts, ToolCalls, ToolHorizon)

NextTools == WorkingPersonDetails \/ MainPersonDetails \/ ToolsPersonDetails

SpecTools == InitTools /\ [][NextTools]_vars

\* C19: get_person_details never raises to its caller, and whenever the
\* request made for it fails (rate limit, client error, retries exhausted) it
\* returns an object whose only member is "error", with a message that
\* starts with "Failed to get person details: ": not an empty result.
C19_ErrorBoundary ==
  tl_tool = "get_person_details" =>
    /\ "raised" \notin DOMAIN tl_out
    /\ tl_calls[1].result.kind # "ok" =>
         /\ DOMAIN tl_out = {"error"}
         /\ tl_out.error[1] = "Failed to get person details: "

(***************************************************************************)
(* Enrichment fan-out: one search or person lookup, then one fetcher call  *)
(* per person and sub-resource.                                            *)
(***************************************************************************)
\* the people the backend lists for a query
FoundLists ==
  { SubSeq(<<"p1", "p2", "p3", "p4">>, 1, n) : n \in 0..MaxPeople }

\* the answers to the first request: the document, or a 404
FirstScripts ==
  { <<Resp("status", 200, "docA"), Resp("status", 200, "docA"), Resp("status", 200, "docA")>>,
    <<Resp("status", 404, "not found"), Resp("status", 404, "not found"), Resp("status", 404, "not found")>> }
\* the answers to the request of a sub-resource: its entries, an empty
\* document, a 404, or three 429s
SubScripts ==
  FirstScripts \cup
  { <<Resp("status", 200, "docB"), Resp("status", 200, "docB"), Resp("status", 200, "docB")>>,
    <<Resp("status", 429, "slow down"), Resp("status", 429, "slow down"), Resp("status", 429, "slow down")>> }

InitFan ==
  /\ server \in {"working", "main"}
  /\ Fresh0
  /\ backend = NoBackend
  /\ chain = <<>>

SearchWithContactInfo == search_people_with_contact_info(FoundLists, FirstScripts, SubScripts, FanCalls)
CompleteContactInfo == get_person_complete_contact_info(PersonIds, FirstScripts, SubScripts, FanCalls)

NextFan == SearchWithContactInfo \/ CompleteContactInfo

SpecFan == InitFan /\ [][NextFan]_vars

\* the fetcher call a tool call made for a sub-resource of a person
CallFor(person_id, kind) ==
  CHOOSE c \in {tl_calls[n] : n \in DOMAIN tl_calls} : c.endpoint = <<"people", person_id, kind>>
\* the slot of a sub-resource holds what was fetched, or one inline error
SlotRight(entry, person_id, kind) ==
  LET res == CallFor(person_id, kind).result IN
  IF res.kind = "ok"
  THEN entry[kind] = IF res.body = "docA" THEN << [id |-> "1", primary |-> FALSE] >> ELSE <<>>
  ELSE /\ Len(entry[kind]) = 1
       /\ DOMAIN entry[kind][1] = {"error"}

\* C20: when the first request of a fan-out is answered, a failure of the
\* fetch of one sub-resource of one person leaves an inline [{"error": ...}]
\* in that slot and nothing else: the result lists every person found, each
\* with every sub-resource asked for, those fetched successfully intact, and
\* is never replaced by an error.
C20_PartialFailure ==
  /\ ( tl_tool = "search_people_with_contact_info" /\ tl_calls[1].result.kind = "ok" ) =>
       /\ Len(tl_out) = Len(tl_in.found)
       /\ \A i \in DOMAIN tl_out :
            /\ "error" \notin DOMAIN tl_out[i]
            /\ tl_out[i].id = tl_in.found[i]
            /\ \A kind \in tl_in.include :
                 kind \in DOMAIN tl_out[i] /\ SlotRight(tl_out[i], tl_in.found[i], kind)
  /\ ( tl_tool = "get_person_complete_contact_info" /\ tl_calls[1].result.kind = "ok" ) =>
       /\ "error" \notin DOMAIN tl_out
       /\ tl_out.id = tl_in.person_id
       /\ \A kind \in {"phone_numbers", "addresses", "emails"} :
            kind \in DOMAIN tl_out /\ SlotRight(tl_out, tl_in.person_id, kind)

\* two people were found; the phone numbers of the first could not be
\* fetched, every other sub-resource of both was
C20_Witness ==
  /\ tl_tool = "search_people_with_contact_info"
  /\ server = "working"
  /\ tl_in.found = <<"p1", "p2">>
  /\ tl_in.include = {"phone_numbers", "addresses", "emails"}
  /\ Len(tl_calls) = 7
  /\ \A n \in DOMAIN tl_calls : tl_calls[n].result.kind = "ok" <=> n # 2
  /\ tl_calls[2].result.kind = "ClientError"
  /\ DOMAIN tl_out[1].phone_numbers[1] = {"error"}
  /\ tl_out[1].addresses = << [id |-> "1", primary |-> FALSE] >>
  /\ tl_out[2].phone_numbers = << [id |-> "1", primary |-> FALSE] >>

(***************************************************************************)
(* The reports over a session whose headcounts lack relationship data and  *)
(* whose event_times span several pages.                                   *)
(***************************************************************************)
Shapes == {"full", "no_relationships", "null_relationships", "null_entry", "no_data", "null_data"}

\* headcounts of 40 with or without an event_time and an attendance_type;
\* without a relationships object both ids are None
ShapedPool ==
  { h \in { Shaped(Headcount(40, et, at), rel) :
              et \in {NoId, "t1"}, at \in {NoId, "a1"}, rel \in Shapes } :
      /\ (h.et # NoId /\ h.at # NoId) => h.rel = "full"
      /\ h.rel \in {"no_relationships", "null_relationships"} => (h.et = NoId /\ h.at = NoId) }
ShapedLists == UNION { [1..n -> ShapedPool] : n \in 0..MaxHC }

\* the pages after the first: none, or one more page with a headcount
LaterPages ==
  { <<>>,
    << [data |-> << EventTime("t2", "11:00") >>, included |-> << Headcount(70, "t2", "a1") >>] >>,
    << [data |-> << EventTime("t2", "11:00") >>, included |-> << Headcount(30, "t2", "a2") >>] >> }

SessionBackends ==
  { [ periods |-> << [id |-> "p1", starts_at |-> 8] >>,
      event_times |-> << EventTime("t1", "09:00") >>,
      included |-> h \o << AttendanceType("a1", "EH 8:15am"), AttendanceType("a2", "EH 10:15am") >>,
      later |-> l ] : h \in ShapedLists, l \in LaterPages }

InitSession ==
  /\ server \in {"simple", "working", "total"}
  /\ Fresh0
  /\ chain = <<>>
  /\ backend \in SessionBackends

SpecSession == InitSession /\ [][NextAgg]_vars

\* the included items of all the pages of the session, and its headcounts
AllIncluded ==
  backend.included \o
  (IF backend.later = <<>> THEN <<>> ELSE backend.later[1].included)
AllHeadcounts == of_type(AllIncluded, "Headcount")
\* the relationship data of a headcount misses something
Unrelated(h) == h.rel # "full" \/ h.et = NoId \/ h.at = NoId
\* the greatest counted total of the headcounts of all pages whose attendance
\* type has the given name, 0 when there is none
MaxOfLabel(name) ==
  LET ts == {0} \cup { Counted(AllHeadcounts[j]) :
                         j \in { k \in DOMAIN AllHeadcounts :
                                   /\ AllHeadcounts[k].at # NoId
                                   /\ index_name(AllIncluded, AllHeadcounts[k].at) = name } } IN
  CHOOSE t \in ts : \A u \in ts : u <= t

\* C21: a headcount whose relationships object, event_time or
\* attendance_type entry, or the data member of such an entry, is absent or
\* null never makes a report fail: the call neither raises nor returns an
\* error result, every headcount is still reported by build_output, the ones
\* without an attendance type in its unknown group, and in the named-service
\* reports they match no label.
C21_MissingRelationships ==
  (SessionFound /\ \E i \in DOMAIN Headcounts : Unrelated(Headcounts[i])) =>
    /\ "raised" \notin DOMAIN ag_out
    /\ "error" \notin DOMAIN ag_out
    /\ server = "simple" =>
         /\ Len(ag_out.event_times) = 1 + Len(backend.later)
         /\ LET rows == ag_out.totals["by_attendance_type"]
                Lost(h) == h.at = NoId
                lost == SelectSeq(AllHeadcounts, Lost) IN
            lost # <<>> =>
              \E r \in DOMAIN rows :
                /\ rows[r].attendance_type_id = NoId
                /\ rows[r].total = SeqSum([j \in DOMAIN lost |-> Counted(lost[j])])
    /\ server \in {"working", "total"} =>
         \A i \in DOMAIN ag_out.services :
           ag_out.services[i].total
             = MaxOfLabel(ag_out.services[i].service_name) \/ backend.later # <<>>

\* C23: the named-service totals are computed over the headcounts of all the
\* time slots of the session: when the event_times response spans several
\* pages, the headcounts included in the later pages are counted too.
C23_AllPages ==
  (server \in {"working", "total"} /\ "services" \in DOMAIN ag_out) =>
    \A i \in DOMAIN ag_out.services :
      ag_out.services[i].total = MaxOfLabel(ag_out.services[i].service_name)

\* C24: every HTTP request of the attendance pipeline (the event fetch, the
\* period query and each event_times page) is made through the rate limiter,
\* which admits it and records it in its window before it is sent: a run
\* never has more requests than the window has timestamps.
C24_Admitted ==
  (server \in {"simple", "working"} /\ ag_out # NoOut) =>
    /\ Len(ag_reqs) <= Len(accepted)
    /\ Len(ag_reqs) <= Len(requests)

\* C27: a date that is not a valid YYYY-MM-DD date is rejected before any
\* upstream request: the call sends no HTTP request, leaves the window of the
\* rate limiter as it was, raises nothing and returns the invalid-date error
\* result.
C27_InvalidDate ==
  [][ ( /\ server \in {"simple", "working"}
        /\ ~strptime_ok(ag_date')
        /\ ag_fail' = 0
        /\ ag_out' # NoOut ) =>
      ( /\ ag_reqs' = <<>>
        /\ requests' = requests
        /\ accepted' = accepted
        /\ ag_out' = [error |-> <<"Invalid date format. Use YYYY-MM-DD.">>] ) ]_vars

(***************************************************************************)
(* Start-up with and without credentials in the environment.               *)
(***************************************************************************)
InitStart ==
  /\ server \in {"working", "main", "client", "simple"}
  /\ Blank
  /\ backend = NoBackend
  /\ chain = <<>>
  /\ env \in {"set", "unset"}
  /\ auth = "unloaded"

Loaded == auth \in {"real", "demo"}
StartedSync == Loaded /\ make_sync_request(upstream_scripts(max_retries), StartCalls)
StartedApi == Loaded /\ make_api_request(upstream_answers, StartCalls)
StartedGet == Loaded /\ client_get(upstream_answers, StartCalls)
StartedRequest == Loaded /\ now < StartHorizon /\ simple_request(upstream_scripts(retries))

NextStart == load_module \/ StartedSync \/ StartedApi \/ StartedGet \/ StartedRequest

SpecStart == InitStart /\ [][NextStart]_vars

\* C22: without a client id or secret in the environment the program still
\* starts, holding placeholder demo values, and the calls it then makes reach
\* the upstream, whose refusal is surfaced as a client error.
C22_DemoCredentials ==
  (env = "unset" /\ auth # "unloaded") =>
    /\ auth = "demo"
    /\ result # NoResult =>
         /\ result.attempts >= 1
         /\ result.status = 401
         /\ result.kind \in {"ClientError", "HTTPStatusError"}

(***************************************************************************)
(* The window of the rate limiter across accepted and rejected calls.      *)
(***************************************************************************)
\* C25: every accepted call of make_sync_request adds exactly one timestamp
\* to the window, recorded before the first HTTP attempt and so before any
\* backoff sleep; its retries add none, and the timestamp stays whether the
\* call ends in success, in a client error or with its retries exhausted.
C25_OneTimestamp ==
  [][ (server = "working" /\ <<requests, accepted, result, answers, now>>' #
                               <<requests, accepted, result, answers, now>>) =>
      ( /\ Len(accepted') = Len(accepted) + 1
        /\ result'.attempts \in 1..max_retries
        /\ LET t == accepted'[Len(accepted')] IN
           /\ requests' = Append(Fresh(requests, now), t)
           /\ now <= t
           /\ now' = t + SeqSum(result'.sleeps) ) ]_vars

\* a call that used all its attempts and slept twice left one timestamp, the
\* time of its start
C25_Witness ==
  /\ server = "working"
  /\ result.kind = "ServerError"
  /\ result.attempts = max_retries
  /\ requests = <<0>>
  /\ accepted = <<0>>
  /\ now = 3

\* C26: a call rejected by the rate limiter adds no timestamp and makes no
\* HTTP attempt; it leaves the window as it was but for the eviction of the
\* timestamps that are 60 seconds old or older, so the oldest timestamp left,
\* and with it the time of recovery, is the same after any number of rejected
\* calls.
C26_RejectedCall ==
  [][ (FetcherCall /\ result'.kind = "RateLimitExceeded") =>
      ( /\ requests' = Fresh(requests, now)
        /\ Len(requests') = 100
        /\ requests'[1] = Fresh(requests, now)[1]
        /\ accepted' = accepted
        /\ now' = now
        /\ answers' = <<>>
        /\ result'.attempts = 0 ) ]_vars

\* PlanningCenterClient.get was rejected at 59 s with the window full since 0
C26_Witness ==
  /\ server = "client"
  /\ result.kind = "RateLimitExceeded"
  /\ answers = <<>>
  /\ now = 59
  /\ Len(requests) = 100
  /\ requests[1] = 0
  /\ Len(accepted) = 100

(***************************************************************************)
(* The contact tool with status reporting.                                 *)
(***************************************************************************)
\* the answers to a request: the document, a document without data, a 404
SafeScripts ==
  { [i \in 1..max_retries |-> r] :
      r \in {Resp("status", 200, "docA"), Resp("status", 200, "docB"),
              Resp("status", 404, "not found")} }

InitSafe ==
  /\ server = "working"
  /\ Fresh0
  /\ backend = NoBackend
  /\ chain = <<>>

SafeContactInfo == get_person_complete_contact_info_safe({"7"}, SafeScripts, SafeCalls)

NextSafe == SafeContactInfo

SpecSafe == InitSafe /\ [][NextSafe]_vars

\* C28: get_person_complete_contact_info_safe never raises and always returns
\* its status record, in which total_requests is 4, success_count lies
\* between 0 and 4, and success_count plus the number of errors is 4,
\* whichever of its four sub-requests succeed or fail.
C28_StatusRecord ==
  tl_tool = "get_person_complete_contact_info_safe" =>
    /\ "raised" \notin DOMAIN tl_out
    /\ tl_out.total_requests = 4
    /\ tl_out.success_count \in 0..4
    /\ tl_out.success_count + Len(tl_out.errors) = 4

(***************************************************************************)
(* The listing tools and the size of their fan-out.                        *)
(***************************************************************************)
None_or(v) == {NoId, v}
CheckFilters ==
  [ status : None_or("approved"), completed_after : None_or("2024-01-01"),
    completed_before : None_or("2024-12-31"), check_type : None_or("standard"),
    include_person_details : BOOLEAN ]

\* n items listed by the backend, with ids "1" .. "n"
Listed(n) == [i \in 1..n |-> ToString(i)]
\* the largest list of people whose enrichment fits the budget, with the
\* first request: 1 + 3 * FanEdge <= max_requests
FanEdge == (max_requests - 1) \div Len(Kinds)
PeopleListed == { Listed(n) : n \in {0, 1, FanEdge, FanEdge + 1, default_limit} }
ChecksListed ==
  { Listed(n) : n \in {0, 1, max_requests - 1, max_requests} } \cup { <<"1", NoId, "3">> }
FoundMany == { Listed(n) : n \in {0, 4, 12} }

\* one answer for all the sub-requests of a call: the document, or a 404
PlainSubs ==
  { [i \in 1..max_retries |-> r] :
      r \in {Resp("status", 200, "docA"), Resp("status", 404, "not found")} }

InitLists ==
  /\ server \in {"working", "main", "client"}
  /\ Fresh0
  /\ backend = NoBackend
  /\ chain = <<>>

ListChecks == list_background_checks(CheckFilters, ChecksListed, PlainSubs, PlainSubs, ListCalls)
ListPeople == list_people_with_filters(PeopleListed, PlainSubs, PlainSubs, ListCalls)
SearchMany == search_people_with_contact_info(FoundMany, PlainSubs, PlainScripts, ListCalls)

NextLists == ListChecks \/ ListPeople \/ SearchMany

SpecLists == InitLists /\ [][NextLists]_vars

\* some part of the value of a parameter is the text d
Encodes(ps, d) == \E k \in DOMAIN ps : \E n \in DOMAIN ps[k] : ps[k][n] = d

\* C29: list_background_checks applies every filter it is given: the request
\* it sends carries the status, the check type, the lower bound
\* completed_after and the upper bound completed_before that were supplied,
\* both bounds when both are given.
C29_AllFilters ==
  tl_tool = "list_background_checks" =>
    LET f == tl_in.filters
        ps == tl_calls[1].endpoint[2] IN
    /\ f.status # NoId => Encodes(ps, f.status)
    /\ f.check_type # NoId => Encodes(ps, f.check_type)
    /\ f.completed_after # NoId => Encodes(ps, f.completed_after)
    /\ f.completed_before # NoId => Encodes(ps, f.completed_before)

\* the fetcher calls of the last tool call that were accepted
Admitted == {i \in DOMAIN tl_calls : tl_calls[i].result.kind # "RateLimitExceeded"}

\* C30: an enrichment operation that starts with an empty window makes at
\* most 100 fetcher calls, and the rate limiter rejects none of them.
C30_FanOutBudget ==
  ( /\ tl_tool \in {"search_people_with_contact_info", "list_people_with_filters",
                     "list_background_checks"}
    /\ Len(accepted) = Cardinality(Admitted) ) =>
    /\ Len(tl_calls) <= max_requests
    /\ Admitted = DOMAIN tl_calls
====
